---- MODULE Spec2Model ----
(***************************************************************************)
(* NoireCalendar: the storage layer (server/storage.ts with its routes),   *)
(* the Calendar page state (pages/Calendar, hooks/useCalendar.ts) and the  *)
(* per-view event selection and layout (MonthView, YearView, WeekView,     *)
(* DayView).                                                               *)
(*                                                                         *)
(* Time.  A JavaScript Date is modelled as the record [day, ms]: day is    *)
(* the number of whole days since 1970-01-01 and ms the milliseconds since *)
(* local midnight (0 .. 86399999).  The local time zone has no DST shift.  *)
(* Months are numbered 0..11 and week days 0..6 (0 = Sunday) as in JS.     *)
(*                                                                         *)
(* Percentages.  topPercentage and heightPercentage are kept exactly, in   *)
(* units of 1/144 percent: 100% = 14400 units, one minute = 10 units.      *)
(*                                                                         *)
(* date-fns is modelled at version 3 (the version range of the project     *)
(* template): areIntervalsOverlapping orders the two ends of each interval *)
(* before comparing and does not throw on an inverted interval.            *)
(***************************************************************************)
EXTENDS Integers, Sequences, FiniteSets, TLC

----------------------------------------------------------------------------
(* Calendar arithmetic of the JS Date object *)

MsPerMinute == 60 * 1000

MinutesPerDay == 24 * 60

MsPerDay == MinutesPerDay * MsPerMinute

\* one percent of the day axis, in the model's unit (100% = 14400 units)
UnitsPerPercent == (MinutesPerDay * 10) \div 100

Max(a, b) == IF a >= b THEN a ELSE b

Min(a, b) == IF a <= b THEN a ELSE b

\* number of days from 1970-01-01 to the civil date (y, month1 in 1..12, d)
DaysFromCivil(y, month1, d) ==
  LET yy  == IF month1 <= 2 THEN y - 1 ELSE y
      era == yy \div 400
      yoe == yy - era * 400
      mp  == IF month1 > 2 THEN month1 - 3 ELSE month1 + 9
      doy == (153 * mp + 2) \div 5 + d - 1
      doe == yoe * 365 + yoe \div 4 - yoe \div 100 + doy
  IN  era * 146097 + doe - 719468

\* the civil date [year, month (0..11), date (1..31)] of day number n
CivilFromDays(n) ==
  LET z   == n + 719468
      era == z \div 146097
      doe == z - era * 146097
      yoe == (doe - doe \div 1460 + doe \div 36524 - doe \div 146096) \div 365
      doy == doe - (365 * yoe + yoe \div 4 - yoe \div 100)
      mp  == (5 * doy + 2) \div 153
      d   == doy - (153 * mp + 2) \div 5 + 1
      m1  == IF mp < 10 THEN mp + 3 ELSE mp - 9
  IN  [year |-> yoe + era * 400 + (IF m1 <= 2 THEN 1 ELSE 0),
       month |-> m1 - 1, date |-> d]

\* Date.prototype.setFullYear(y, m, d) / new Date(y, m, d): month and date
\* outside their range carry into the year and the month
MakeDay(y, m, d) == DaysFromCivil(y + (m \div 12), (m % 12) + 1, 1) + d - 1

getFullYear(t) == CivilFromDays(t.day).year

getMonth(t) == CivilFromDays(t.day).month

getDate(t) == CivilFromDays(t.day).date

getDay(t) == (t.day + 4) % 7

getHours(t) == t.ms \div (60 * MsPerMinute)

getMinutes(t) == (t.ms \div MsPerMinute) % 60

\* Date.prototype.setHours(h, m, s, ms) with in-range arguments
setHours(t, h, m, s, ms) == [day |-> t.day, ms |-> ((h * 60 + m) * 60 + s) * 1000 + ms]

\* Date.prototype.setDate(d): d outside the month carries over
setDate(t, d) == [day |-> MakeDay(getFullYear(t), getMonth(t), d), ms |-> t.ms]

Before(a, b) == a.day < b.day \/ (a.day = b.day /\ a.ms < b.ms)

NotAfter(a, b) == a = b \/ Before(a, b)

MaxDate(a, b) == IF Before(a, b) THEN b ELSE a

MinDate(a, b) == IF Before(a, b) THEN a ELSE b

----------------------------------------------------------------------------
(* date-fns *)

startOfDay(t) == setHours(t, 0, 0, 0, 0)

endOfDay(t) == setHours(t, 23, 59, 59, 999)

startOfMonth(t) == setHours(setDate(t, 1), 0, 0, 0, 0)

endOfMonth(t) ==
  setHours([day |-> MakeDay(getFullYear(t), getMonth(t) + 1, 0), ms |-> t.ms],
           23, 59, 59, 999)

startOfYear(t) == setHours([day |-> MakeDay(getFullYear(t), 0, 1), ms |-> t.ms], 0, 0, 0, 0)

endOfYear(t) ==
  setHours([day |-> MakeDay(getFullYear(t) + 1, 0, 0), ms |-> t.ms], 23, 59, 59, 999)

startOfWeek(t, weekStartsOn) ==
  LET dow  == getDay(t)
      diff == (IF dow < weekStartsOn THEN 7 ELSE 0) + dow - weekStartsOn
  IN  setHours(setDate(t, getDate(t) - diff), 0, 0, 0, 0)

endOfWeek(t, weekStartsOn) ==
  LET dow  == getDay(t)
      diff == (IF dow < weekStartsOn THEN -7 ELSE 0) + 6 - (dow - weekStartsOn)
  IN  setHours(setDate(t, getDate(t) + diff), 23, 59, 59, 999)

isSameDay(a, b) == startOfDay(a) = startOfDay(b)

\* differenceInMinutes(a, b): (a - b) in milliseconds over 60000, truncated
\* toward zero
differenceInMinutes(a, b) ==
  LET dd  == a.day - b.day
      dms == a.ms - b.ms
      neg == dd < 0 \/ (dd = 0 /\ dms < 0)
  IN  IF neg
      THEN dd * MinutesPerDay - ((0 - dms) \div MsPerMinute)
      ELSE dd * MinutesPerDay + (dms \div MsPerMinute)

\* areIntervalsOverlapping(left, right): each interval's ends are put in
\* order, then leftStart < rightEnd && rightStart < leftEnd
areIntervalsOverlapping(ls, le, rs, re) ==
  LET leftStart  == MinDate(ls, le)
      leftEnd    == MaxDate(ls, le)
      rightStart == MinDate(rs, re)
      rightEnd   == MaxDate(rs, re)
  IN  Before(leftStart, rightEnd) /\ Before(rightStart, leftEnd)

\* eachDayOfInterval({start, end}): the start of every day from start to end
eachDayOfInterval(s, e) ==
  [i \in 1..(e.day - s.day + 1) |-> [day |-> s.day + i - 1, ms |-> 0]]

----------------------------------------------------------------------------
(* State *)

VARIABLES
  currentDate,   \* Calendar: the anchor date
  view,          \* Calendar: "year" | "month" | "week" | "day"
  events,        \* Calendar: the events handed to the views
  fetchWindow,   \* the {start, end} of the latest GET /api/events?start&end
  rendered,      \* what the view drawn last computed from (currentDate, events)
  isLoading,     \* Calendar: the flag the views draw their skeletons from
  fetches,       \* Calendar: the fetchEvents calls waiting for their response
  showEventModal,\* Calendar: the event modal is open
  editingEvent,  \* Calendar: the event handed to the modal, or undefinedEvent
  isEditing,     \* Calendar: the modal edits editingEvent
  modal,         \* EventCreationModal: the form fields and isSubmitting
  request,       \* EventCreationModal: the request of handleSave or handleDelete
  toast,         \* the title of the toast shown last
  started,       \* the server has run registerRoutes' initializeDatabase
  dbUsers,       \* table users: the ids of the stored users
  dbEvents,      \* table events: the set of stored rows
  nextEventId,   \* the serial of events.id
  dbSettings,    \* table settings: the rows in insertion order
  response,      \* what the latest storage call or route returned
  calls          \* the storage calls in flight, each between two awaits

vars == <<currentDate, view, events, fetchWindow, rendered,
          isLoading, fetches, showEventModal, editingEvent, isEditing,
          modal, request, toast,
          started, dbUsers, dbEvents, nextEventId, dbSettings, response, calls>>

serverVars == <<started, dbUsers, dbEvents, nextEventId, dbSettings, response, calls>>

fetchVars == <<isLoading, fetches>>

modalVars == <<showEventModal, editingEvent, isEditing, modal, request, toast>>

clientVars == <<currentDate, view, events, fetchWindow, rendered, fetchVars, modalVars>>

eventStoreVars == <<dbEvents, nextEventId>>

Views == {"year", "month", "week", "day"}

None == [kind |-> "none"]

\* the most storage calls in flight at once
MaxCalls == 2

CallIds == 1..MaxCalls

\* a call slot with no call in flight
Idle == [pc |-> "idle"]

NoCalls == [c \in CallIds |-> Idle]

\* at most MaxFetches calls of Calendar.fetchEvents wait for their response
MaxFetches == 2

FetchIds == 1..MaxFetches

NoFetches == [f \in FetchIds |-> Idle]

\* useState<CalendarEvent | undefined>(undefined): no event
undefinedEvent == [id |-> 0]

\* EventCreationModal's useState initial values without an event; a time
\* string "HH:mm" is the pair of its two numbers
initialForm(initialDate) ==
  [title |-> "", allDay |-> FALSE, selectedDate |-> initialDate,
   startTime |-> <<9, 0>>, endTime |-> <<10, 0>>, isSubmitting |-> FALSE]

\* the modal has sent no request
NoRequest == [pc |-> "none"]

\* toast({title, ...})
Toast(title) == [kind |-> "toast", title |-> title]

\* the page before the modal was ever opened
ModalClosed ==
  /\ showEventModal = FALSE
  /\ editingEvent = undefinedEvent
  /\ isEditing = FALSE
  /\ modal = initialForm(currentDate)
  /\ request = NoRequest
  /\ toast = None

\* the enumerations of calendarSettingsSchema
Themes == {"dark", "light"}

WeekStarts == {"sunday", "monday"}

TimeFormats == {"12h", "24h"}

DisplayModes == {"dots", "text", "box", "color"}

SettingsFields == {"theme", "startOfWeek", "timeFormat", "eventDisplayMode"}

defaultUserId == 1

----------------------------------------------------------------------------
(* The views: per-day selection and the timed layout *)

\* a percentage of the 24-hour axis for a number of minutes:
\* (minutes / (24 * 60)) * 100
PercentOfDay(minutes) == (minutes * 100 * UnitsPerPercent) \div MinutesPerDay

\* format(date, 'h:mm a'): the 12-hour clock reading of a date
formatTime(t) ==
  [h |-> IF getHours(t) % 12 = 0 THEN 12 ELSE getHours(t) % 12,
   mm |-> getMinutes(t),
   a |-> IF getHours(t) < 12 THEN "AM" ELSE "PM"]

\* MonthView.getEventsForDay and YearView.getEventsForDay
getEventsForDay(evs, day) ==
  LET dayStart == startOfDay(day)
      dayEnd   == endOfDay(day)
      Keep(event) == areIntervalsOverlapping(dayStart, dayEnd, event.startDate, event.endDate)
  IN  SelectSeq(evs, Keep)

\* Math.max(heightPercentage, 1): the minimum visible height, in percent
MIN_VISIBLE_HEIGHT == 1

\* the map callback with the Math.max(heightPercentage, 1) left out
positionEvent_NoMinimum(event, day) ==
  LET eventStart == event.startDate
      eventEnd   == event.endDate
      startMinutes ==
        IF isSameDay(eventStart, day)
        THEN getHours(eventStart) * 60 + getMinutes(eventStart) ELSE 0
      durationMinutes ==
        IF ~isSameDay(eventStart, eventEnd)
        THEN differenceInMinutes(endOfDay(day), eventStart)
        ELSE differenceInMinutes(eventEnd, eventStart)
  IN  [event |-> event,
       topPercentage |-> PercentOfDay(startMinutes),
       heightPercentage |-> PercentOfDay(durationMinutes),
       displayStartTime |-> formatTime(eventStart),
       displayEndTime |-> formatTime(eventEnd)]

\* the body of the map callback shared by WeekView.processedEvents and
\* DayView.processedEvents: the positioned record of event on day
positionEvent(event, day) ==
  LET eventStart == event.startDate
      eventEnd   == event.endDate
      dayStart   == startOfDay(day)
      eventStartHour ==
        setHours(dayStart,
                 IF isSameDay(eventStart, day) THEN getHours(eventStart) ELSE 0,
                 IF isSameDay(eventStart, day) THEN getMinutes(eventStart) ELSE 0,
                 0, 0)
      startMinutes == getHours(eventStartHour) * 60 + getMinutes(eventStartHour)
      durationMinutes ==
        IF ~isSameDay(eventStart, eventEnd)
        THEN differenceInMinutes(endOfDay(day), eventStart)
        ELSE differenceInMinutes(eventEnd, eventStart)
      topPercentage    == PercentOfDay(startMinutes)
      heightPercentage == PercentOfDay(durationMinutes)
  IN  [event |-> event,
       topPercentage |-> topPercentage,
       heightPercentage |-> Max(heightPercentage, MIN_VISIBLE_HEIGHT * UnitsPerPercent),
       displayStartTime |-> formatTime(eventStart),
       displayEndTime |-> formatTime(eventEnd)]

\* WeekView.weekDays
weekDays(cd) == eachDayOfInterval(startOfWeek(cd, 0), endOfWeek(cd, 0))

\* WeekView.processedEvents: for each day of the week, the positioned
\* records of the timed events that overlap the day
WeekView_processedEvents(evs, cd) ==
  LET days == weekDays(cd)
      KeepOn(day) ==
        LET Keep(event) ==
              /\ ~event.allDay
              /\ areIntervalsOverlapping(startOfDay(day), endOfDay(day),
                                         event.startDate, event.endDate)
        IN  SelectSeq(evs, Keep)
  IN  [i \in DOMAIN days |->
         [day |-> days[i],
          records |-> [k \in DOMAIN KeepOn(days[i]) |->
                         positionEvent(KeepOn(days[i])[k], days[i])]]]

\* DayView.processedEvents without its closing filter
DayView_processedEvents_Unfiltered(evs, cd) ==
  LET IsTimed(event) == ~event.allDay
      timedEvents == SelectSeq(evs, IsTimed)
  IN  [k \in DOMAIN timedEvents |-> positionEvent(timedEvents[k], cd)]

\* DayView.processedEvents: every timed event is positioned, then the ones
\* that do not overlap the day are dropped
DayView_processedEvents(evs, cd) ==
  LET IsTimed(event) == ~event.allDay
      timedEvents == SelectSeq(evs, IsTimed)
      mapped == [k \in DOMAIN timedEvents |-> positionEvent(timedEvents[k], cd)]
      Keep(r) == areIntervalsOverlapping(startOfDay(cd), endOfDay(cd),
                                         r.event.startDate, r.event.endDate)
  IN  SelectSeq(mapped, Keep)

\* isWithinInterval(date, {start, end}) (date-fns 3): the two ends are
\* ordered, and both belong to the interval
isWithinInterval(date, start, end) ==
  /\ NotAfter(MinDate(start, end), date)
  /\ NotAfter(date, MaxDate(start, end))

\* DayView.allDayEvents: the all-day events whose interval holds the anchor
\* date, clock time included
DayView_allDayEvents(evs, cd) ==
  LET Keep(event) ==
        event.allDay /\ isWithinInterval(cd, event.startDate, event.endDate)
  IN  SelectSeq(evs, Keep)

\* WeekView.getAllDayEventsForDay
getAllDayEventsForDay(evs, day) ==
  LET Keep(event) ==
        /\ event.allDay
        /\ areIntervalsOverlapping(startOfDay(day), endOfDay(day),
                                   event.startDate, event.endDate)
  IN  SelectSeq(evs, Keep)

\* MonthView.calendarDays: the grid from the start of the month's first week
\* to the end of its last week
calendarDays(cd) ==
  eachDayOfInterval(startOfWeek(startOfMonth(cd), 0), endOfWeek(endOfMonth(cd), 0))

\* YearView: the days of the twelve months of the anchor's year
yearDays(cd) == eachDayOfInterval(startOfYear(cd), endOfYear(cd))

----------------------------------------------------------------------------
(* Inputs of the view specification *)

\* events start and end on the days BaseDay .. BaseDay + MaxDayOffset
MaxDayOffset == 1

\* 2024-01-01, a Monday
BaseDay == MakeDay(2024, 0, 1)

At(h, m, s, ms) == ((h * 60 + m) * 60 + s) * 1000 + ms

ClockTimes ==
  {At(0, 0, 0, 0), At(2, 0, 0, 0), At(22, 0, 0, 0),
   At(23, 55, 0, 0), At(23, 56, 0, 0), At(23, 59, 59, 999)}

AnchorClocks == {At(0, 0, 0, 0), At(10, 30, 0, 0)}

LayoutDays == {BaseDay + k : k \in 0..MaxDayOffset}

Instants == [day : LayoutDays, ms : ClockTimes]

\* an Event as the client receives it (shared/schema.ts eventSchema)
Event(id, userId, startDate, endDate, allDay) ==
  [id |-> id, userId |-> userId, title |-> "t", description |-> "",
   startDate |-> startDate, endDate |-> endDate, allDay |-> allDay,
   color |-> "#3498db", location |-> "", notifications |-> FALSE]

LayoutEvents == {Event(1, 1, s, e, a) : s \in Instants, e \in Instants, a \in BOOLEAN}

\* lists of two events: an all-day event of the base day, from its first
\* to its last millisecond or over its afternoon, with a timed event
LayoutEventLists ==
  {<<Event(2, 1, [day |-> BaseDay, ms |-> s], [day |-> BaseDay, ms |-> e], TRUE),
     Event(1, 1, [day |-> BaseDay, ms |-> At(2, 0, 0, 0)],
                 [day |-> BaseDay + d, ms |-> At(22, 0, 0, 0)], FALSE)>>
     : s \in {At(0, 0, 0, 0)}, e \in {At(23, 59, 59, 999), At(22, 0, 0, 0)},
       d \in {0, 1}}

\* the settings row of the default user, as an earlier run left it
ViewSettingsRows ==
  {[userId |-> defaultUserId, theme |-> "dark", startOfWeek |-> "sunday",
    timeFormat |-> tf, eventDisplayMode |-> "dots"] : tf \in TimeFormats}

----------------------------------------------------------------------------
(* The view specification: the props (currentDate, events) are any date and
   any event list; the action of each view computes what the view derives
   from them.  The events prop is whatever an earlier fetch stored, so it is
   not tied to the window of the current anchor. *)

InitViews ==
  /\ currentDate \in [day : LayoutDays, ms : AnchorClocks]
  /\ view \in Views
  /\ events \in {<< >>} \cup {<<e>> : e \in LayoutEvents} \cup LayoutEventLists
  /\ fetchWindow = None
  /\ rendered = None
  /\ isLoading = FALSE
  /\ fetches = NoFetches
  /\ ModalClosed
  /\ started = TRUE
  /\ dbUsers = {defaultUserId}
  /\ dbEvents = {}
  /\ nextEventId = 1
  /\ dbSettings \in {<<row>> : row \in ViewSettingsRows}
  /\ response = None
  /\ calls = NoCalls

\* the cells of a day grid: each day with the events getEventsForDay selects
DayCells(days) ==
  [i \in DOMAIN days |-> [day |-> days[i], events |-> getEventsForDay(events, days[i])]]

RenderYearView ==
  /\ view = "year"
  /\ rendered' = [kind |-> "year", cells |-> DayCells(yearDays(currentDate))]
  /\ UNCHANGED <<currentDate, view, events, fetchWindow, fetchVars, modalVars, serverVars>>

RenderMonthView ==
  /\ view = "month"
  /\ rendered' = [kind |-> "month", cells |-> DayCells(calendarDays(currentDate))]
  /\ UNCHANGED <<currentDate, view, events, fetchWindow, fetchVars, modalVars, serverVars>>

RenderWeekView ==
  /\ view = "week"
  /\ rendered' =
       [kind |-> "week", days |-> WeekView_processedEvents(events, currentDate),
        allDay |-> [i \in DOMAIN weekDays(currentDate) |->
                      getAllDayEventsForDay(events, weekDays(currentDate)[i])]]
  /\ UNCHANGED <<currentDate, view, events, fetchWindow, fetchVars, modalVars, serverVars>>

RenderDayView ==
  /\ view = "day"
  /\ rendered' = [kind |-> "day", day |-> startOfDay(currentDate),
                  records |-> DayView_processedEvents(events, currentDate),
                  allDay |-> DayView_allDayEvents(events, currentDate)]
  /\ UNCHANGED <<currentDate, view, events, fetchWindow, fetchVars, modalVars, serverVars>>

NextViews == RenderYearView \/ RenderMonthView \/ RenderWeekView \/ RenderDayView

SpecViews == InitViews /\ [][NextViews]_vars

----------------------------------------------------------------------------
(* Properties of the views *)

Range(seq) == {seq[i] : i \in DOMAIN seq}

\* the pairs <<day, record>> of the timed layout drawn last
Positioned ==
  IF rendered.kind = "week"
  THEN UNION {{<<c.day, r>> : r \in Range(c.records)} : c \in Range(rendered.days)}
  ELSE IF rendered.kind = "day"
  THEN {<<rendered.day, r>> : r \in Range(rendered.records)}
  ELSE {}

\* the pairs <<day, selection>> of the per-day selection drawn last; in the
\* week and day views the selection is the events that got a record
Selections ==
  IF rendered.kind \in {"year", "month"}
  THEN {<<c.day, Range(c.events)>> : c \in Range(rendered.cells)}
  ELSE IF rendered.kind = "week"
  THEN {<<c.day, {r.event : r \in Range(c.records)}>> : c \in Range(rendered.days)}
  ELSE IF rendered.kind = "day"
  THEN {<<rendered.day, {r.event : r \in Range(rendered.records)}>>}
  ELSE {}

\* the candidates of a selection: every event, or the timed ones
Candidates ==
  IF rendered.kind \in {"week", "day"}
  THEN {e \in Range(events) : ~e.allDay}
  ELSE Range(events)

\* E.start < W.end and E.end > W.start for the day window W of day
HalfOpenOverlap(e, day) ==
  Before(e.startDate, endOfDay(day)) /\ Before(startOfDay(day), e.endDate)

WellFormed(e) == Before(e.startDate, e.endDate)

FullyInside(e, day) ==
  /\ NotAfter(startOfDay(day), e.startDate)
  /\ Before(e.startDate, e.endDate)
  /\ NotAfter(e.endDate, endOfDay(day))

Percent(p) == p * UnitsPerPercent

\* minutes since midnight of a date
MinutesSinceMidnight(t) == t.ms \div MsPerMinute

\* C2: every per-day selection holds an event iff the event starts before
\* the end of the day window and ends after its start.
C2_SelectionIsHalfOpenOverlap ==
  \A s \in Selections : \A e \in Candidates :
    (e \in s[2]) <=> HalfOpenOverlap(e, s[1])

\* C3: the record of a timed event on a day is laid out from the event's
\* intersection with the day: top from max(E.start, day start), height from
\* the minutes between that and min(E.end, day end).
C3_RecordIsIntersectionWithDay ==
  \A p \in Positioned :
    LET e     == p[2].event
        start == MaxDate(e.startDate, startOfDay(p[1]))
        end   == MinDate(e.endDate, endOfDay(p[1]))
    IN  WellFormed(e) =>
          /\ p[2].topPercentage = PercentOfDay(MinutesSinceMidnight(start))
          /\ p[2].heightPercentage =
               Max(PercentOfDay(differenceInMinutes(end, start)), Percent(MIN_VISIBLE_HEIGHT))

\* C4: the record of an event that lies fully inside the day stays on the
\* day's axis: top >= 0 and top + height <= 100.
C4_InsideEventStaysOnAxis ==
  \A p \in Positioned :
    FullyInside(p[2].event, p[1]) =>
      /\ p[2].topPercentage >= 0
      /\ p[2].topPercentage + p[2].heightPercentage <= Percent(100)

\* C5: every record has 0 <= top < 100 and 0 < height <= 100.
C5_RecordWithinRanges ==
  \A p \in Positioned :
    /\ 0 <= p[2].topPercentage /\ p[2].topPercentage < Percent(100)
    /\ 0 < p[2].heightPercentage /\ p[2].heightPercentage <= Percent(100)

\* C6: an event that ends at or before its start gets no record on any day
\* of the week and day layouts.
C6_DegenerateEventHasNoRecord ==
  \A p \in Positioned : ~NotAfter(p[2].event.endDate, p[2].event.startDate)

\* C7: every record is at least MIN_VISIBLE_HEIGHT (1%) high, and the
\* record of an event inside one day is exactly the larger of its
\* proportional height and that minimum.
C7_HeightAtLeastMinimum ==
  \A p \in Positioned :
    /\ p[2].heightPercentage >= Percent(1)
    /\ FullyInside(p[2].event, p[1]) =>
         p[2].heightPercentage =
           Max(PercentOfDay(differenceInMinutes(p[2].event.endDate, p[2].event.startDate)),
               Percent(1))

\* a one-minute event was laid out and its record is 1% high
C7_Witness ==
  \E p \in Positioned :
    /\ FullyInside(p[2].event, p[1])
    /\ differenceInMinutes(p[2].event.endDate, p[2].event.startDate) = 1
    /\ p[2].heightPercentage = Percent(1)

\* the clock reading of a date in a time format: hours 0..23 in "24h",
\* hours 1..12 with AM or PM in "12h"
ClockReading(t, timeFormat) ==
  LET hours == t.ms \div (60 * MsPerMinute)
  IN  IF timeFormat = "24h"
      THEN [h |-> hours, mm |-> MinutesSinceMidnight(t) % 60, a |-> ""]
      ELSE [h |-> IF hours \in {0, 12} THEN 12 ELSE hours % 12,
            mm |-> MinutesSinceMidnight(t) % 60,
            a |-> IF hours < 12 THEN "AM" ELSE "PM"]

\* the user's timeFormat setting
TimeFormatSetting == dbSettings[1].timeFormat

\* C18: the display times of every record are the event's own start and
\* end, read in the time format of the user's settings.
C18_DisplayTimesFollowTimeFormat ==
  \A p \in Positioned :
    /\ p[2].displayStartTime = ClockReading(p[2].event.startDate, TimeFormatSetting)
    /\ p[2].displayEndTime = ClockReading(p[2].event.endDate, TimeFormatSetting)

\* the number of records of event e in a day's bucket
RecordsOf(e, records) == Cardinality({k \in DOMAIN records : records[k].event = e})

\* C19: in the week view the bucket of a day holds exactly one record of
\* every timed event that overlaps the day and none of any other event.
C19_OneRecordPerTouchedDay ==
  rendered.kind = "week" =>
    \A c \in Range(rendered.days) : \A e \in Range(events) :
      RecordsOf(e, c.records) =
        IF ~e.allDay /\ HalfOpenOverlap(e, c.day) THEN 1 ELSE 0

\* C20: in the day view an event that overlaps the day is in allDayEvents
\* and not in the timed layout when its allDay flag is set, and the other
\* way round when it is not; an all-day event is shown exactly when it
\* overlaps the day.
C20_DayViewPartition ==
  rendered.kind = "day" =>
    \A e \in Range(events) :
      LET shownAllDay == e \in Range(rendered.allDay)
          shownTimed  == RecordsOf(e, rendered.records) > 0
      IN  /\ HalfOpenOverlap(e, rendered.day) =>
               /\ shownAllDay = e.allDay
               /\ shownTimed = ~e.allDay
          /\ e.allDay => (shownAllDay <=> HalfOpenOverlap(e, rendered.day))

----------------------------------------------------------------------------
(* The settings table (server/storage.ts) *)

\* the values JavaScript's || treats as absent
Falsy(v) == v = ""

\* a || b
OrElse(a, b) == IF Falsy(a) THEN b ELSE a

\* newSettings.f of a Partial<CalendarSettings>: undefined (falsy) when the
\* field is absent
Field(partial, f) == IF f \in DOMAIN partial THEN partial[f] ELSE ""

\* db.select().from(settings).where(eq(settings.userId, userId))
selectSettings(userId) == SelectSeq(dbSettings, LAMBDA row : row.userId = userId)

\* the CalendarSettings object built from a settings row
settingsOfRow(row) ==
  [theme |-> row.theme, startOfWeek |-> row.startOfWeek,
   timeFormat |-> row.timeFormat,
   eventDisplayMode |-> OrElse(row.eventDisplayMode, "dots")]

\* getSettings without the lookup of the user's row
getSettings_AlwaysDefault(userId) ==
  [theme |-> "dark", startOfWeek |-> "sunday", timeFormat |-> "12h",
   eventDisplayMode |-> "dots"]

\* DatabaseStorage.getSettings
getSettings(userId) ==
  LET userSettings == selectSettings(userId)
  IN  IF Len(userSettings) > 0
      THEN settingsOfRow(userSettings[1])
      ELSE [theme |-> "dark", startOfWeek |-> "sunday", timeFormat |-> "12h",
            eventDisplayMode |-> "dots"]

\* updateSettings with the defaults as the base of the merge even when the
\* user has a row
mergedSettingsRow_DefaultBase(newSettings, userId) ==
  [userId |-> userId,
   theme |-> OrElse(Field(newSettings, "theme"), "dark"),
   startOfWeek |-> OrElse(Field(newSettings, "startOfWeek"), "sunday"),
   timeFormat |-> OrElse(Field(newSettings, "timeFormat"), "12h"),
   eventDisplayMode |-> OrElse(Field(newSettings, "eventDisplayMode"), "dots")]

\* the values updateSettings writes, from the rows existingSettings that its
\* select returned: .set({...}) when a row exists, .values({...}) when none
\* does
settingsValues(newSettings, userId, existingSettings) ==
  IF Len(existingSettings) > 0
  THEN [userId |-> userId,
        theme |-> OrElse(Field(newSettings, "theme"), existingSettings[1].theme),
        startOfWeek |->
          OrElse(Field(newSettings, "startOfWeek"), existingSettings[1].startOfWeek),
        timeFormat |->
          OrElse(Field(newSettings, "timeFormat"), existingSettings[1].timeFormat),
        eventDisplayMode |->
          OrElse(Field(newSettings, "eventDisplayMode"),
                 OrElse(existingSettings[1].eventDisplayMode, "dots"))]
  ELSE [userId |-> userId,
        theme |-> OrElse(Field(newSettings, "theme"), "dark"),
        startOfWeek |-> OrElse(Field(newSettings, "startOfWeek"), "sunday"),
        timeFormat |-> OrElse(Field(newSettings, "timeFormat"), "12h"),
        eventDisplayMode |-> OrElse(Field(newSettings, "eventDisplayMode"), "dots")]

\* the values updateSettings writes when nothing runs between its select
\* and its write
mergedSettingsRow(newSettings, userId) ==
  settingsValues(newSettings, userId, selectSettings(userId))

\* the table after updateSettings: every row of the user is updated
\* (UPDATE ... WHERE user_id = userId), or one row is inserted
settingsAfterUpdate(newSettings, userId) ==
  IF Len(selectSettings(userId)) > 0
  THEN [i \in DOMAIN dbSettings |->
          IF dbSettings[i].userId = userId
          THEN mergedSettingsRow(newSettings, userId)
          ELSE dbSettings[i]]
  ELSE Append(dbSettings, mergedSettingsRow(newSettings, userId))

\* the insert of updateSettings violates settings.user_id -> users.id when
\* the user is not stored: the statement throws
updateSettingsThrows(userId) == Len(selectSettings(userId)) = 0 /\ userId \notin dbUsers

\* DatabaseStorage.updateSettings
updateSettings(newSettings, userId) ==
  IF updateSettingsThrows(userId)
  THEN /\ dbSettings' = dbSettings
       /\ response' = [kind |-> "updateSettings", userId |-> userId,
                       partial |-> newSettings, before |-> selectSettings(userId),
                       threw |-> TRUE]
  ELSE /\ dbSettings' = settingsAfterUpdate(newSettings, userId)
       /\ response' = [kind |-> "updateSettings", userId |-> userId,
                       partial |-> newSettings, before |-> selectSettings(userId),
                       threw |-> FALSE,
                       result |-> settingsOfRow(mergedSettingsRow(newSettings, userId))]

\* DatabaseStorage.initializeDatabase, awaited by registerRoutes before any
\* route is registered
initializeDatabase ==
  /\ ~started
  /\ started' = TRUE
  /\ IF defaultUserId \notin dbUsers
     THEN /\ dbUsers' = dbUsers \cup {defaultUserId}
          /\ LET row == [userId |-> defaultUserId, theme |-> "dark",
                         startOfWeek |-> "sunday", timeFormat |-> "12h",
                         eventDisplayMode |-> "dots"]
                 partial == [theme |-> "dark", startOfWeek |-> "sunday",
                             timeFormat |-> "12h"]
             IN  \* updateSettings once the default user is stored
                 /\ dbSettings' =
                      IF Len(selectSettings(defaultUserId)) > 0
                      THEN settingsAfterUpdate(partial, defaultUserId)
                      ELSE Append(dbSettings, mergedSettingsRow(partial, defaultUserId))
                 /\ response' = [kind |-> "updateSettings", userId |-> defaultUserId,
                                 partial |-> partial,
                                 before |-> selectSettings(defaultUserId),
                                 threw |-> FALSE,
                                 result |-> settingsOfRow(mergedSettingsRow(partial, defaultUserId))]
     ELSE UNCHANGED <<dbUsers, dbSettings, response>>
  /\ UNCHANGED <<clientVars, calls, dbEvents, nextEventId>>

\* GET /api/settings
GetSettingsRoute(userId) ==
  /\ started
  /\ response' = [kind |-> "getSettings", userId |-> userId, result |-> getSettings(userId)]
  /\ UNCHANGED <<clientVars, calls, started, dbUsers, dbEvents, nextEventId, dbSettings>>

\* POST /api/settings: the request body goes to updateSettings as it is
PostSettingsRoute(body, userId) ==
  /\ started
  /\ updateSettings(body, userId)
  /\ UNCHANGED <<clientVars, calls, started, dbUsers, dbEvents, nextEventId>>

----------------------------------------------------------------------------
(* The settings specification *)

Users == {defaultUserId, defaultUserId + 1}

\* the Partial<CalendarSettings> objects: any subset of the fields, each
\* with a value of its enumeration
SettingsPartials ==
  UNION {[fs -> Themes \cup WeekStarts \cup TimeFormats \cup DisplayModes]
           : fs \in SUBSET SettingsFields}

EnumOf(f) ==
  CASE f = "theme" -> Themes
    [] f = "startOfWeek" -> WeekStarts
    [] f = "timeFormat" -> TimeFormats
    [] f = "eventDisplayMode" -> DisplayModes

TypedPartials == {p \in SettingsPartials : \A f \in DOMAIN p : p[f] \in EnumOf(f)}

\* The database is a fresh one, or one in which an earlier start stored the
\* default user and stopped before writing the user's settings.  No route
\* stores a user, so the default user is the only one there ever is.
InitSettings ==
  /\ currentDate = [day |-> BaseDay, ms |-> 0]
  /\ view = "month"
  /\ events = << >>
  /\ fetchWindow = None
  /\ rendered = None
  /\ isLoading = FALSE
  /\ fetches = NoFetches
  /\ ModalClosed
  /\ started = FALSE
  /\ dbUsers \in {{}, {defaultUserId}}
  /\ dbEvents = {}
  /\ nextEventId = 1
  /\ dbSettings = << >>
  /\ response = None
  /\ calls = NoCalls

NextSettings ==
  \/ initializeDatabase
  \/ \E u \in Users : GetSettingsRoute(u)
  \/ \E u \in Users, p \in TypedPartials : PostSettingsRoute(p, u)

SpecSettings == InitSettings /\ [][NextSettings]_vars

\* the fixed default of getSettings and of the first updateSettings
DefaultSettings ==
  [theme |-> "dark", startOfWeek |-> "sunday", timeFormat |-> "12h",
   eventDisplayMode |-> "dots"]

\* C10: updateSettings returns and stores, for every field, the partial's
\* value when the partial has the field and otherwise the value stored
\* before (the default when the user had no row).
C10_UpdateSettingsMerges ==
  (response.kind = "updateSettings" /\ ~response.threw) =>
    LET base == IF Len(response.before) > 0 THEN response.before[1] ELSE DefaultSettings
        Expected(f) == IF f \in DOMAIN response.partial THEN response.partial[f] ELSE base[f]
    IN  \A f \in SettingsFields :
          /\ response.result[f] = Expected(f)
          /\ Len(selectSettings(response.userId)) > 0
          /\ selectSettings(response.userId)[1][f] = Expected(f)

\* a partial with only the theme was merged into a stored row whose other
\* fields were not the defaults
C10_Witness ==
  /\ response.kind = "updateSettings" /\ ~response.threw
  /\ Len(response.before) > 0
  /\ DOMAIN response.partial = {"theme"}
  /\ response.before[1].theme = "dark" /\ response.partial.theme = "light"
  /\ response.before[1].timeFormat = "24h"
  /\ response.before[1].eventDisplayMode = "box"
  /\ response.result = [theme |-> "light", startOfWeek |-> response.before[1].startOfWeek,
                        timeFormat |-> "24h", eventDisplayMode |-> "box"]

----------------------------------------------------------------------------
(* The settings calls step by step: updateSettings awaits its select and  *)
(* then its update or insert, and another request may run between the two *)

\* the tables that hold row besides rows; a select without ORDER BY
\* returns the rows in an order the database chooses, so the new row may
\* come at any place
InsertedAnywhere(rows, row) ==
  {[i \in 1..(Len(rows) + 1) |->
      IF i < k THEN rows[i] ELSE IF i = k THEN row ELSE rows[i - 1]]
     : k \in 1..(Len(rows) + 1)}

\* POST /api/settings up to the first await of updateSettings:
\* existingSettings = await db.select()...
updateSettings_select(c, newSettings, userId) ==
  /\ started
  /\ calls[c] = Idle
  /\ calls' = [calls EXCEPT ![c] =
                 [pc |-> "selected", userId |-> userId, newSettings |-> newSettings,
                  existingSettings |-> selectSettings(userId)]]
  /\ UNCHANGED <<clientVars, started, dbUsers, dbEvents, nextEventId, dbSettings, response>>

\* the rest of updateSettings: the update of every row of the user, or the
\* insert of a row, with the values computed from the rows selected earlier;
\* the insert throws when the user is not stored.  No route deletes a
\* settings row, so an update always finds the rows it selected.
updateSettings_write(c) ==
  /\ calls[c].pc = "selected"
  /\ LET call == calls[c]
         values == settingsValues(call.newSettings, call.userId, call.existingSettings)
         done(threw) ==
           [kind |-> "updateSettings", userId |-> call.userId,
            partial |-> call.newSettings, before |-> call.existingSettings,
            threw |-> threw, result |-> settingsOfRow(values)]
     IN  IF Len(call.existingSettings) > 0
         THEN /\ dbSettings' = [i \in DOMAIN dbSettings |->
                                  IF dbSettings[i].userId = call.userId
                                  THEN values ELSE dbSettings[i]]
              /\ response' = done(FALSE)
         ELSE IF call.userId \notin dbUsers
         THEN /\ dbSettings' = dbSettings
              /\ response' = [kind |-> "updateSettings", userId |-> call.userId,
                              partial |-> call.newSettings,
                              before |-> call.existingSettings, threw |-> TRUE]
         ELSE /\ dbSettings' \in InsertedAnywhere(dbSettings, values)
              /\ response' = done(FALSE)
  /\ calls' = [calls EXCEPT ![c] = Idle]
  /\ UNCHANGED <<clientVars, started, dbUsers, dbEvents, nextEventId>>

\* the bodies of POST /api/settings: two partials of the type and one with
\* a theme that is not of the enumeration
PostedSettings ==
  {[f \in {"theme"} |-> "light"],
   [f \in {"timeFormat"} |-> "24h"],
   [f \in {"theme"} |-> "blue"]}

NextSettingsCalls ==
  \/ initializeDatabase
  \/ \E u \in Users : GetSettingsRoute(u)
  \/ \E c \in CallIds, u \in Users, body \in PostedSettings :
       updateSettings_select(c, body, u)
  \/ \E c \in CallIds : updateSettings_write(c)

SpecSettingsCalls == InitSettings /\ [][NextSettingsCalls]_vars

\* C11: the settings table never holds two rows of one user.
C11_OneSettingsRowPerUser ==
  \A u \in Users : Len(selectSettings(u)) <= 1

\* C12: an update with a value outside a field's enumeration is answered
\* with an error, and every stored row holds values of the enumerations.
C12_InvalidSettingsRejected ==
  /\ \A i \in DOMAIN dbSettings :
       \A f \in SettingsFields : dbSettings[i][f] \in EnumOf(f)
  /\ ( /\ response.kind = "updateSettings"
       /\ \E f \in DOMAIN response.partial : response.partial[f] \notin EnumOf(f) )
     => response.threw

\* C13: when no updateSettings is in flight any more and the call that
\* wrote last has returned its record, getSettings returns that record.
C13_LastWriteWins ==
  ( /\ \A c \in CallIds : calls[c] = Idle
    /\ response.kind = "updateSettings"
    /\ ~response.threw )
  => getSettings(response.userId) = response.result

\* C14: a getSettings request answers with the stored record of the user,
\* or with the fixed default when the user has no row, and leaves the
\* settings and users tables as they were.
C14_GetSettingsOnlyReads ==
  [][ (response'.kind = "getSettings" /\ response' # response) =>
        LET u == response'.userId
            stored == {i \in DOMAIN dbSettings : dbSettings[i].userId = u}
        IN  /\ dbSettings' = dbSettings
            /\ dbUsers' = dbUsers
            /\ response'.result =
                 IF stored = {}
                 THEN DefaultSettings
                 ELSE LET row == dbSettings[CHOOSE i \in stored : TRUE]
                      IN  [f \in SettingsFields |-> row[f]] ]_vars

\* getSettings answered the default for a user without a row while another
\* user's changed row is stored, and the user still has no row
C14_Witness ==
  /\ response.kind = "getSettings"
  /\ Len(selectSettings(response.userId)) = 0
  /\ response.result = DefaultSettings
  /\ \E i \in DOMAIN dbSettings : settingsOfRow(dbSettings[i]) # DefaultSettings

----------------------------------------------------------------------------
(* The events table (server/storage.ts) *)

\* SQL NULL in a text column
NULL == "<null>"

\* an absent (undefined) text property
UNDEFINED == "<undefined>"

DEFAULT_COLOR == "#3498db"

\* event.f of an InsertEvent or Partial<InsertEvent> given as a function
\* from the fields it has; absent gives the value absent
FieldOr(obj, f, absent) == IF f \in DOMAIN obj THEN obj[f] ELSE absent

\* a text that || treats as absent: undefined, null or the empty string
FalsyText(v) == v \in {"", NULL, UNDEFINED}

\* a ?? b on a text column value
Coalesce(a, b) == IF a \in {NULL, UNDEFINED} THEN b ELSE a

\* DatabaseStorage.mapDbEventToEvent (rows are only stored with a userId)
mapDbEventToEvent(dbEvent) ==
  [id |-> dbEvent.id, userId |-> dbEvent.userId, title |-> dbEvent.title,
   description |-> Coalesce(dbEvent.description, UNDEFINED),
   startDate |-> dbEvent.startDate, endDate |-> dbEvent.endDate,
   allDay |-> dbEvent.allDay,
   color |-> Coalesce(dbEvent.color, DEFAULT_COLOR),
   location |-> Coalesce(dbEvent.location, UNDEFINED),
   notifications |-> dbEvent.notifications]

\* ORDER BY start_date (descending or not): the sequences that hold every
\* row of the set once, no row before one that the order puts first; rows
\* of equal start_date come in any order
OrderedBy(rows, descending) ==
  {q \in [1..Cardinality(rows) -> rows] :
     \A i, j \in DOMAIN q :
       i < j => /\ q[i] # q[j]
                /\ IF descending
                   THEN NotAfter(q[j].startDate, q[i].startDate)
                   ELSE NotAfter(q[i].startDate, q[j].startDate)}

\* the rows of the range without the condition on user_id
rowsInDateRange_AnyUser(start, end, userId) ==
  {row \in dbEvents :
     /\ NotAfter(start, row.startDate)
     /\ NotAfter(row.endDate, end)}

\* the rows getEventsByDateRange selects:
\* WHERE user_id = userId AND start_date >= start AND end_date <= end
rowsInDateRange(start, end, userId) ==
  {row \in dbEvents :
     /\ row.userId = userId
     /\ NotAfter(start, row.startDate)
     /\ NotAfter(row.endDate, end)}

\* DatabaseStorage.getEvent
getEvent(id) ==
  IF \E row \in dbEvents : row.id = id
  THEN mapDbEventToEvent(CHOOSE row \in dbEvents : row.id = id)
  ELSE [id |-> 0]

\* the values createEvent inserts for an InsertEvent
insertedRow(event, id) ==
  [id |-> id,
   userId |-> IF FieldOr(event, "userId", 0) = 0 THEN defaultUserId ELSE event.userId,
   title |-> event.title,
   description |-> IF FalsyText(FieldOr(event, "description", UNDEFINED))
                   THEN NULL ELSE event.description,
   startDate |-> event.startDate,
   endDate |-> event.endDate,
   allDay |-> FieldOr(event, "allDay", FALSE),
   color |-> IF FalsyText(FieldOr(event, "color", UNDEFINED))
             THEN DEFAULT_COLOR ELSE event.color,
   location |-> IF FalsyText(FieldOr(event, "location", UNDEFINED))
                THEN NULL ELSE event.location,
   notifications |-> FieldOr(event, "notifications", FALSE)]

\* .set({column: v}) leaves the column as it is when v is undefined
SetColumn(stored, v) == IF v = UNDEFINED THEN stored ELSE v

\* the row after updateEvent's UPDATE, from the stored row and the Event
\* (existing) that getEvent made of it
updatedRow(stored, event) ==
  LET existing == mapDbEventToEvent(stored)
  IN  [id |-> stored.id,
       userId |-> stored.userId,
       title |-> FieldOr(event, "title", existing.title),
       description |->
         SetColumn(stored.description, FieldOr(event, "description", existing.description)),
       startDate |-> FieldOr(event, "startDate", existing.startDate),
       endDate |-> FieldOr(event, "endDate", existing.endDate),
       allDay |-> FieldOr(event, "allDay", existing.allDay),
       color |-> IF FalsyText(FieldOr(event, "color", UNDEFINED))
                 THEN existing.color ELSE event.color,
       location |->
         SetColumn(stored.location, FieldOr(event, "location", existing.location)),
       notifications |-> FieldOr(event, "notifications", existing.notifications)]

\* the most ids the serial of events.id hands out
MaxEventId == 2

\* new Date(text) of a text that is no date: the Invalid Date, whose time
\* value is NaN
InvalidDate == [day |-> 0, ms |-> 0 - 1]

\* isNaN(date.getTime())
isInvalidDate(t) == t.ms < 0

\* insertEventSchema.safeParse(...).success: title is a string (of any
\* length), startDate and endDate are valid dates; the other fields are
\* optional
insertEventSchemaAccepts(body) ==
  /\ "title" \in DOMAIN body
  /\ ~isInvalidDate(body.startDate)
  /\ ~isInvalidDate(body.endDate)

\* the timestamp columns are written as value.toISOString(), which throws
\* a RangeError on the Invalid Date
updateEventThrows(event) ==
  \/ ("startDate" \in DOMAIN event /\ isInvalidDate(event.startDate))
  \/ ("endDate" \in DOMAIN event /\ isInvalidDate(event.endDate))

\* POST /api/events and DatabaseStorage.createEvent; body is the request
\* body with startDate and endDate as new Date(...) made them.  The insert
\* throws on a user that is not stored (events.user_id -> users.id).
PostEventRoute(body) ==
  /\ started
  /\ nextEventId <= MaxEventId
  /\ IF ~insertEventSchemaAccepts(body)
     THEN /\ response' = [kind |-> "createEvent", body |-> body, status |-> 400]
          /\ UNCHANGED <<dbEvents, nextEventId>>
     ELSE LET row == insertedRow(body, nextEventId)
          IN  IF row.userId \in dbUsers
              THEN /\ dbEvents' = dbEvents \cup {row}
                   /\ nextEventId' = nextEventId + 1
                   /\ response' = [kind |-> "createEvent", body |-> body,
                                   status |-> 201,
                                   result |-> mapDbEventToEvent(row)]
              ELSE \* the serial is consumed by the failed insert
                   /\ dbEvents' = dbEvents
                   /\ nextEventId' = nextEventId + 1
                   /\ response' = [kind |-> "createEvent", body |-> body,
                                   status |-> 500]
  /\ UNCHANGED <<clientVars, calls, started, dbUsers, dbSettings>>

\* PUT /api/events/:id and DatabaseStorage.updateEvent; body is the request
\* body with the dates it has as new Date(...) made them
PutEventRoute(id, body) ==
  /\ started
  /\ IF getEvent(id).id = 0
     THEN /\ dbEvents' = dbEvents
          /\ response' = [kind |-> "updateEvent", id |-> id, partial |-> body,
                          status |-> 404]
     ELSE LET stored == CHOOSE row \in dbEvents : row.id = id
          IN  IF updateEventThrows(body)
              THEN /\ dbEvents' = dbEvents
                   /\ response' = [kind |-> "updateEvent", id |-> id,
                                   partial |-> body, status |-> 500]
              ELSE /\ dbEvents' = (dbEvents \ {stored}) \cup {updatedRow(stored, body)}
                   /\ response' = [kind |-> "updateEvent", id |-> id, status |-> 200,
                                   partial |-> body, before |-> stored,
                                   result |-> mapDbEventToEvent(updatedRow(stored, body))]
  /\ UNCHANGED <<clientVars, calls, started, dbUsers, nextEventId, dbSettings>>

\* DELETE /api/events/:id without the test of deleteEvent's result
DeleteEventRoute_Always204(id) ==
  /\ started
  /\ dbEvents' = {row \in dbEvents : row.id # id}
  /\ response' = [kind |-> "deleteEvent", id |-> id, status |-> 204]
  /\ UNCHANGED <<clientVars, calls, started, dbUsers, nextEventId, dbSettings>>

\* DELETE /api/events/:id and DatabaseStorage.deleteEvent
DeleteEventRoute(id) ==
  /\ started
  /\ dbEvents' = {row \in dbEvents : row.id # id}
  /\ response' = [kind |-> "deleteEvent", id |-> id,
                  status |-> IF \E row \in dbEvents : row.id = id THEN 204 ELSE 404]
  /\ UNCHANGED <<clientVars, calls, started, dbUsers, nextEventId, dbSettings>>

\* GET /api/events/:id and DatabaseStorage.getEvent
GetEventRoute(id) ==
  /\ started
  /\ response' = IF getEvent(id).id = 0
                 THEN [kind |-> "getEvent", id |-> id, status |-> 404]
                 ELSE [kind |-> "getEvent", id |-> id, status |-> 200,
                       result |-> getEvent(id)]
  /\ UNCHANGED <<clientVars, calls, started, dbUsers, dbEvents, nextEventId, dbSettings>>

\* GET /api/events without a range, and DatabaseStorage.getEvents:
\* WHERE user_id = userId ORDER BY start_date DESC
GetEventsRoute(userId) ==
  /\ started
  /\ \E q \in OrderedBy({row \in dbEvents : row.userId = userId}, TRUE) :
       response' = [kind |-> "getEvents", userId |-> userId, status |-> 200,
                    result |-> [i \in DOMAIN q |-> mapDbEventToEvent(q[i])]]
  /\ UNCHANGED <<clientVars, calls, started, dbUsers, dbEvents, nextEventId, dbSettings>>

\* GET /api/events?start&end with two parseable dates, and
\* DatabaseStorage.getEventsByDateRange: ... ORDER BY start_date
GetEventsByDateRangeRoute(start, end, userId) ==
  /\ started
  /\ \E q \in OrderedBy(rowsInDateRange(start, end, userId), FALSE) :
       response' = [kind |-> "getEventsByDateRange", userId |-> userId,
                    start |-> start, end |-> end, status |-> 200,
                    result |-> [i \in DOMAIN q |-> mapDbEventToEvent(q[i])]]
  /\ UNCHANGED <<clientVars, calls, started, dbUsers, dbEvents, nextEventId, dbSettings>>

----------------------------------------------------------------------------
(* The Calendar page (pages/Calendar in hooks/useCalendar.ts) *)

\* Date.prototype.toISOString: the fields of the date, the month from 1
toISOString(t) ==
  <<getFullYear(t), getMonth(t) + 1, getDate(t),
    getHours(t), getMinutes(t), (t.ms \div 1000) % 60, t.ms % 1000>>

\* new Date(isoString)
parseISO(str) ==
  [day |-> MakeDay(str[1], str[2] - 1, str[3]),
   ms |-> At(str[4], str[5], str[6], str[7])]

\* Date.prototype.setFullYear(y): the month and the date are kept and carry
\* over when the year has no such day
setFullYear(t, y) == [day |-> MakeDay(y, getMonth(t), getDate(t)), ms |-> t.ms]

\* Date.prototype.setMonth(m): the date is kept and carries over
setMonth(t, m) == [day |-> MakeDay(getFullYear(t), m, getDate(t)), ms |-> t.ms]

\* getDateRange with the view ignored: the window of the default branch
getDateRange_IgnoresView(cd, v) == [start |-> startOfMonth(cd), end |-> endOfMonth(cd)]

\* Calendar.getDateRange (and useCalendar.dateRange, the same switch)
getDateRange(cd, v) ==
  CASE v = "year"  -> [start |-> startOfYear(cd), end |-> endOfYear(cd)]
    [] v = "month" -> [start |-> startOfMonth(cd), end |-> endOfMonth(cd)]
    [] v = "week"  -> [start |-> startOfWeek(cd, 0), end |-> endOfWeek(cd, 0)]
    [] v = "day"   -> [start |-> startOfDay(cd), end |-> endOfDay(cd)]
    [] OTHER       -> [start |-> startOfMonth(cd), end |-> endOfMonth(cd)]

\* the query of Calendar.fetchEvents: /api/events?start=${startStr}&end=${endStr}
fetchQuery(cd, v) ==
  [kind |-> "query",
   start |-> toISOString(getDateRange(cd, v).start),
   end |-> toISOString(getDateRange(cd, v).end)]

\* the anchor dates of the page lie in NavYears years from FirstYear on
NavYears == 2

FirstYear == getFullYear([day |-> BaseDay, ms |-> 0])

InNavRange(t) ==
  /\ MakeDay(FirstYear, 0, 1) <= t.day
  /\ t.day < MakeDay(FirstYear + NavYears, 0, 1)

\* the values of new Date(): 10:30 on the 29th of February of FirstYear
Todays == {[day |-> MakeDay(FirstYear, 1, 29), ms |-> At(10, 30, 0, 0)]}

\* a state change of (currentDate, view) followed by the effect
\* useEffect(() => { fetchEvents() }, [fetchEvents]), which issues the fetch
\* for the new state.  Here a fetch is its query; the fetches are followed
\* to their responses in SpecFetch.
SetAnchorAndView(cd, v) ==
  /\ InNavRange(cd)
  /\ currentDate' = cd
  /\ view' = v
  /\ fetchWindow' = fetchQuery(cd, v)
  /\ isLoading' = TRUE
  /\ UNCHANGED <<events, rendered, fetches, modalVars, serverVars>>

\* the date handlePrevious hands to setCurrentDate
previousDate(cd, v) ==
  CASE v = "year"  -> setFullYear(cd, getFullYear(cd) - 1)
    [] v = "month" -> setMonth(cd, getMonth(cd) - 1)
    [] v = "week"  -> setDate(cd, getDate(cd) - 7)
    [] v = "day"   -> setDate(cd, getDate(cd) - 1)

\* the date handleNext hands to setCurrentDate
nextDate(cd, v) ==
  CASE v = "year"  -> setFullYear(cd, getFullYear(cd) + 1)
    [] v = "month" -> setMonth(cd, getMonth(cd) + 1)
    [] v = "week"  -> setDate(cd, getDate(cd) + 7)
    [] v = "day"   -> setDate(cd, getDate(cd) + 1)

handlePrevious == SetAnchorAndView(previousDate(currentDate, view), view)

handleNext == SetAnchorAndView(nextDate(currentDate, view), view)

handleToday == \E now \in Todays : SetAnchorAndView(now, view)

\* YearView: a click on month i calls onMonthClick(new Date(currentYear, i, 1))
onMonthClick ==
  /\ view = "year"
  /\ \E i \in 0..11 :
       SetAnchorAndView([day |-> MakeDay(getFullYear(currentDate), i, 1), ms |-> 0], "month")

\* MonthView: a click on a day cell of the current month calls onDayClick(day)
MonthView_onDayClick ==
  /\ view = "month"
  /\ \E i \in DOMAIN calendarDays(currentDate) :
       LET day == calendarDays(currentDate)[i]
       IN  /\ getMonth(day) = getMonth(currentDate)
           /\ getFullYear(day) = getFullYear(currentDate)
           /\ SetAnchorAndView(day, "day")

\* WeekView: a click on a day header calls onDayClick(day)
WeekView_onDayClick ==
  /\ view = "week"
  /\ \E i \in DOMAIN weekDays(currentDate) :
       SetAnchorAndView(weekDays(currentDate)[i], "day")

\* BottomNavigation: onViewChange(newView) calls setView(newView)
onViewChange == \E newView \in Views : SetAnchorAndView(currentDate, newView)

\* the settings row of the default user, as an earlier POST /api/settings
\* left it
StoredSettingsRows ==
  {[userId |-> defaultUserId, theme |-> "dark", startOfWeek |-> sw,
    timeFormat |-> "12h", eventDisplayMode |-> "dots"] : sw \in WeekStarts}

InitNav ==
  /\ currentDate \in Todays
  /\ view = "month"
  /\ events = << >>
  /\ fetchWindow = fetchQuery(currentDate, view)
  /\ rendered = None
  /\ isLoading = TRUE
  /\ fetches = NoFetches
  /\ ModalClosed
  /\ started = TRUE
  /\ dbUsers = {defaultUserId}
  /\ dbEvents = {}
  /\ nextEventId = 1
  /\ dbSettings \in {<<row>> : row \in StoredSettingsRows}
  /\ response = None
  /\ calls = NoCalls

NextNav ==
  \/ handlePrevious
  \/ handleNext
  \/ handleToday
  \/ onMonthClick
  \/ MonthView_onDayClick
  \/ WeekView_onDayClick
  \/ onViewChange

SpecNav == InitNav /\ [][NextNav]_vars

----------------------------------------------------------------------------
(* The event store specification *)

\* the dates of the stored events
Evening == [day |-> BaseDay, ms |-> At(22, 0, 0, 0)]

Midnight == [day |-> BaseDay + 1, ms |-> At(0, 0, 0, 0)]

Night == [day |-> BaseDay + 1, ms |-> At(2, 0, 0, 0)]

\* the request bodies of POST /api/events: an event over midnight, one
\* inside a day, one of no length, one of a user that is not stored, one
\* with an empty title and one with a start that is no date
InsertEvents ==
  {[title |-> "t", startDate |-> Evening, endDate |-> Night],
   [title |-> "t", startDate |-> Midnight, endDate |-> Night],
   [title |-> "t", startDate |-> Night, endDate |-> Night, allDay |-> FALSE],
   [title |-> "t", startDate |-> Midnight, endDate |-> Night,
    userId |-> defaultUserId + 1],
   [title |-> "", startDate |-> Midnight, endDate |-> Night],
   [title |-> "t", startDate |-> InvalidDate, endDate |-> Night]}

\* the request bodies of PUT /api/events/:id: no field or one field,
\* among them an empty color, an empty title and a start that is no date
EventPartials ==
  {<< >>,
   [f \in {"startDate"} |-> Midnight],
   [f \in {"endDate"} |-> Midnight],
   [f \in {"allDay"} |-> TRUE],
   [f \in {"allDay"} |-> FALSE],
   [f \in {"color"} |-> ""],
   [f \in {"title"} |-> ""],
   [f \in {"startDate"} |-> InvalidDate]}

EventIds == 1..(MaxEventId + 1)

\* the windows the page asks for (Calendar.fetchEvents): the day and the
\* month of the two days of the stored events
StoreWindows ==
  {fetchQuery([day |-> BaseDay + k, ms |-> 0], v) : k \in {0, 1}, v \in {"day", "month"}}

InitStore ==
  /\ currentDate = [day |-> BaseDay, ms |-> 0]
  /\ view = "month"
  /\ events = << >>
  /\ fetchWindow = None
  /\ rendered = None
  /\ isLoading = FALSE
  /\ fetches = NoFetches
  /\ ModalClosed
  /\ started = FALSE
  /\ dbUsers \in {{}, {defaultUserId}}
  /\ dbEvents = {}
  /\ nextEventId = 1
  /\ dbSettings = << >>
  /\ response = None
  /\ calls = NoCalls

NextStore ==
  \/ initializeDatabase
  \/ \E body \in InsertEvents : PostEventRoute(body)
  \/ \E id \in EventIds, body \in EventPartials : PutEventRoute(id, body)
  \/ \E id \in EventIds : DeleteEventRoute(id)
  \/ \E id \in EventIds : GetEventRoute(id)
  \/ \E userId \in Users : GetEventsRoute(userId)
  \/ \E w \in StoreWindows, userId \in Users :
       GetEventsByDateRangeRoute(parseISO(w.start), parseISO(w.end), userId)

SpecStore == InitStore /\ [][NextStore]_vars

\* the requests that address one event by its id, with one body to create
\* events from and two bodies to update them with
NextEventById ==
  \/ initializeDatabase
  \/ PostEventRoute([title |-> "t", startDate |-> Evening, endDate |-> Night])
  \/ \E id \in EventIds, body \in {<< >>, [f \in {"allDay"} |-> TRUE]} :
       PutEventRoute(id, body)
  \/ \E id \in EventIds : DeleteEventRoute(id)
  \/ \E id \in EventIds : GetEventRoute(id)

SpecEventById == InitStore /\ [][NextEventById]_vars

----------------------------------------------------------------------------
(* Properties of the event store *)

\* C1: a range query returns every stored event of the user whose interval
\* overlaps the window (startDate < end and endDate > start), also the
\* events that begin before the window or finish after it.
C1_RangeQueryReturnsOverlapping ==
  response.kind = "getEventsByDateRange" =>
    \A row \in dbEvents :
      ( /\ row.userId = response.userId
        /\ Before(row.startDate, response.end)
        /\ Before(response.start, row.endDate) )
      => \E i \in DOMAIN response.result : response.result[i].id = row.id

\* C15: an update of a stored event leaves the row with the supplied value
\* in every field the request supplies and the stored value in every other
\* field.
C15_UpdateEventSetsSuppliedFields ==
  (response.kind = "updateEvent" /\ response.status = 200) =>
    LET row == CHOOSE r \in dbEvents : r.id = response.id
    IN  \A f \in DOMAIN response.before :
          row[f] = IF f \in DOMAIN response.partial
                   THEN response.partial[f]
                   ELSE response.before[f]

\* C16: a get, update or delete of an id that no stored event has finds
\* nothing (getEvent gives no event), is answered 404 and leaves the
\* events table as it was.
C16_MissingIdAnswers404 ==
  [][ ( /\ response' # response
        /\ response'.kind \in {"getEvent", "updateEvent", "deleteEvent"}
        /\ ~\E row \in dbEvents : row.id = response'.id )
      => /\ getEvent(response'.id).id = 0
         /\ response'.status = 404
         /\ dbEvents' = dbEvents
         /\ nextEventId' = nextEventId ]_vars

\* a delete, and an update, of an id that is not stored was answered 404
\* while another event is stored
C16_Witness ==
  /\ response.kind \in {"deleteEvent", "updateEvent"}
  /\ response.status = 404
  /\ dbEvents # {}
  /\ \A row \in dbEvents : row.id # response.id

\* a request body with an empty title or with a date that is no date
MalformedEvent(body) ==
  \/ ("title" \in DOMAIN body /\ body.title = "")
  \/ ("startDate" \in DOMAIN body /\ isInvalidDate(body.startDate))
  \/ ("endDate" \in DOMAIN body /\ isInvalidDate(body.endDate))

\* C17: a create or update request with an empty title or an unparseable
\* date is answered with an error, and no stored event has an empty title
\* or a date that is no date.
C17_MalformedEventRejected ==
  /\ (response.kind = "createEvent" /\ MalformedEvent(response.body))
       => response.status >= 400
  /\ (response.kind = "updateEvent" /\ MalformedEvent(response.partial))
       => response.status >= 400
  /\ \A row \in dbEvents :
       /\ row.title # ""
       /\ ~isInvalidDate(row.startDate)
       /\ ~isInvalidDate(row.endDate)

----------------------------------------------------------------------------
(* Properties of the Calendar page *)

IsLeapYear(y) == (y % 4 = 0 /\ y % 100 # 0) \/ y % 400 = 0

DaysInMonth(y, month1) ==
  IF month1 = 2 THEN (IF IsLeapYear(y) THEN 29 ELSE 28)
  ELSE IF month1 \in {4, 6, 9, 11} THEN 30 ELSE 31

FirstInstant(y, month1, d) == [day |-> DaysFromCivil(y, month1, d), ms |-> 0]

LastInstant(y, month1, d) == [day |-> DaysFromCivil(y, month1, d), ms |-> MsPerDay - 1]

FetchStart == parseISO(fetchWindow.start)

FetchEnd == parseISO(fetchWindow.end)

\* the week-start setting of the user, as getSettings returns it
WeekStartsOnSetting ==
  IF getSettings(defaultUserId).startOfWeek = "monday" THEN 1 ELSE 0

\* C8: in the week view the fetched window starts at 00:00 of the latest
\* day at or before the anchor that is the configured week start, and ends
\* six days later at 23:59:59.999.
C8_WeekWindowFollowsSetting ==
  view = "week" =>
    /\ FetchStart.ms = 0
    /\ FetchStart.day <= currentDate.day
    /\ currentDate.day - FetchStart.day <= 6
    /\ getDay(FetchStart) = WeekStartsOnSetting
    /\ FetchEnd = [day |-> FetchStart.day + 6, ms |-> MsPerDay - 1]

\* C9: the fetched window is the window of the current anchor and view:
\* the anchor's year, month or day from its first to its last millisecond,
\* and in every view start <= anchor <= end.
C9_FetchWindowOfAnchorAndView ==
  LET y  == getFullYear(currentDate)
      m1 == getMonth(currentDate) + 1
  IN  /\ view = "year" =>
           FetchStart = FirstInstant(y, 1, 1) /\ FetchEnd = LastInstant(y, 12, 31)
      /\ view = "month" =>
           /\ FetchStart = FirstInstant(y, m1, 1)
           /\ FetchEnd = LastInstant(y, m1, DaysInMonth(y, m1))
      /\ view = "day" =>
           /\ FetchStart = [day |-> currentDate.day, ms |-> 0]
           /\ FetchEnd = [day |-> currentDate.day, ms |-> MsPerDay - 1]
      /\ NotAfter(FetchStart, currentDate)
      /\ NotAfter(currentDate, FetchEnd)

\* after navigating, the page shows February of a leap year in the month
\* view with a mid-day anchor, and the fetch ends on the 29th
C9_Witness ==
  /\ view = "month"
  /\ getMonth(currentDate) = 1
  /\ getDate(currentDate) # 29
  /\ currentDate.ms # 0
  /\ getDate(FetchEnd) = 29
  /\ FetchStart.day < currentDate.day

----------------------------------------------------------------------------
(* The day view against the week view *)

\* C22: the positioned records the day view computes for its anchor are
\* exactly the records of the week view's bucket of the anchor's day
C22_DayViewIsWeekBucket ==
  rendered.kind = "day" =>
    LET week == WeekView_processedEvents(events, currentDate)
    IN  /\ \E i \in DOMAIN week : isSameDay(week[i].day, currentDate)
        /\ \A i \in DOMAIN week :
             isSameDay(week[i].day, currentDate) =>
               week[i].records = rendered.records

\* a day view anchored at a clock time past midnight that positions an
\* event running over midnight
C22_Witness ==
  /\ rendered.kind = "day"
  /\ currentDate.ms # 0
  /\ \E k \in DOMAIN rendered.records :
       /\ ~isSameDay(rendered.records[k].event.startDate,
                     rendered.records[k].event.endDate)
       /\ Before(rendered.records[k].event.startDate,
                 rendered.records[k].event.endDate)

----------------------------------------------------------------------------
(* MonthView: the event previews of the day cells *)

\* the slice bound with useIsMobile() ignored: the desktop bounds
previewLimit_Desktop(eventDisplayMode, isMobile) ==
  CASE eventDisplayMode = "dots"  -> 5
    [] eventDisplayMode = "color" -> 4
    [] OTHER                      -> 2

\* the bound of eventsForDay.slice(0, ...) in each case of the switch on
\* settings.eventDisplayMode; "text" shares the default case
previewLimit(eventDisplayMode, isMobile) ==
  CASE eventDisplayMode = "dots"  -> 5
    [] eventDisplayMode = "color" -> IF isMobile THEN 2 ELSE 4
    [] eventDisplayMode = "box"   -> IF isMobile THEN 1 ELSE 2
    [] OTHER                      -> IF isMobile THEN 1 ELSE 2

\* MonthView.renderEvents(day): the skeletons while isLoading, null without
\* events, else the sliced events and the "+k" element when there are more
renderEvents(evs, day, loading, eventDisplayMode, isMobile) ==
  LET eventsForDay == getEventsForDay(evs, day)
      limit == previewLimit(eventDisplayMode, isMobile)
  IN  IF loading
      THEN [kind |-> "skeleton"]
      ELSE IF Len(eventsForDay) = 0
           THEN [kind |-> "null"]
           ELSE [kind |-> eventDisplayMode,
                 shown |-> SubSeq(eventsForDay, 1, Min(Len(eventsForDay), limit)),
                 badge |-> IF Len(eventsForDay) > limit
                           THEN <<Len(eventsForDay) - limit>>
                           ELSE << >>]

\* MonthView's settings state: its initial value, or the body of the
\* answer to the GET /api/settings of its mount effect
MonthView_settings ==
  {[theme |-> "dark", startOfWeek |-> "sunday", timeFormat |-> "12h",
    eventDisplayMode |-> "dots"],
   getSettings(defaultUserId)}

\* MonthView draws the cells of calendarDays with renderEvents(day)
RenderMonthCells ==
  /\ view = "month"
  /\ \E settings \in MonthView_settings, isMobile \in BOOLEAN :
       rendered' = [kind |-> "monthCells",
                    eventDisplayMode |-> settings.eventDisplayMode,
                    isMobile |-> isMobile,
                    cells |-> [i \in DOMAIN calendarDays(currentDate) |->
                                [day |-> calendarDays(currentDate)[i],
                                 preview |-> renderEvents(events,
                                               calendarDays(currentDate)[i],
                                               isLoading,
                                               settings.eventDisplayMode,
                                               isMobile)]]]
  /\ UNCHANGED <<currentDate, view, events, fetchWindow, fetchVars, modalVars, serverVars>>

\* the event lists of the preview runs hold up to MaxMonthEvents events of
\* one hour each, every third one on the day after BaseDay
MaxMonthEvents == 8

MonthEvent(k) ==
  Event(k, defaultUserId,
        [day |-> BaseDay + (IF k % 3 = 0 THEN 1 ELSE 0), ms |-> At(k % 23, 0, 0, 0)],
        [day |-> BaseDay + (IF k % 3 = 0 THEN 1 ELSE 0), ms |-> At((k % 23) + 1, 0, 0, 0)],
        FALSE)

MonthEventLists ==
  {[i \in 1..n |-> MonthEvent(i)] : n \in 0..MaxMonthEvents}
    \cup {[i \in 1..n |-> MonthEvent(n + 1 - i)] : n \in 2..MaxMonthEvents}

InitMonthView ==
  /\ currentDate \in [day : {BaseDay, BaseDay + 1}, ms : AnchorClocks]
  /\ view = "month"
  /\ events \in MonthEventLists
  /\ fetchWindow = None
  /\ rendered = None
  /\ isLoading \in BOOLEAN
  /\ fetches = NoFetches
  /\ ModalClosed
  /\ started = TRUE
  /\ dbUsers = {defaultUserId}
  /\ dbEvents = {}
  /\ nextEventId = 1
  /\ dbSettings \in {<<[userId |-> defaultUserId, theme |-> "dark",
                        startOfWeek |-> "sunday", timeFormat |-> "12h",
                        eventDisplayMode |-> mode]>> : mode \in DisplayModes}
  /\ response = None
  /\ calls = NoCalls

NextMonthView == RenderMonthCells

SpecMonthView == InitMonthView /\ [][NextMonthView]_vars

\* the preview limit of a display mode as the month view documents it
PreviewLimitOf(mode, isMobile) ==
  IF mode = "dots" THEN 5
  ELSE IF mode = "color" THEN (IF isMobile THEN 2 ELSE 4)
  ELSE (IF isMobile THEN 1 ELSE 2)

ShownIn(preview) == IF "shown" \in DOMAIN preview THEN preview.shown ELSE << >>

BadgeIn(preview) == IF "badge" \in DOMAIN preview THEN preview.badge ELSE << >>

PreviewFollowsLimit(cell) ==
  LET overlapping == getEventsForDay(events, cell.day)
      count == Len(overlapping)
      N == PreviewLimitOf(rendered.eventDisplayMode, rendered.isMobile)
  IN  /\ ShownIn(cell.preview) = SubSeq(overlapping, 1, Min(count, N))
      /\ BadgeIn(cell.preview) = (IF count > N THEN <<count - N>> ELSE << >>)

\* C21 as stated: every day cell of the month view shows the first
\* min(count, N) events overlapping its day, in input order, and the badge
\* "+k" with k = count - N exactly when count > N
C21_CellShowsPreview ==
  rendered.kind = "monthCells" =>
    \A i \in DOMAIN rendered.cells : PreviewFollowsLimit(rendered.cells[i])

\* C21: while the month view is not loading, every day cell shows the first
\* min(count, N) events overlapping its day, in input order, and the badge
\* "+k" with k = count - N exactly when count > N; shown + k = count
C21_CellShowsPreviewWhenLoaded ==
  (rendered.kind = "monthCells" /\ ~isLoading) =>
    \A i \in DOMAIN rendered.cells :
      /\ PreviewFollowsLimit(rendered.cells[i])
      /\ Len(ShownIn(rendered.cells[i].preview))
           + (IF BadgeIn(rendered.cells[i].preview) = << >> THEN 0
              ELSE BadgeIn(rendered.cells[i].preview)[1])
         = Len(getEventsForDay(events, rendered.cells[i].day))

\* a loaded cell in the mode "dots" with six events on its day: five dots
\* and the badge "+1"
C21_Witness ==
  /\ rendered.kind = "monthCells"
  /\ ~isLoading
  /\ rendered.eventDisplayMode = "dots"
  /\ \E i \in DOMAIN rendered.cells :
       /\ Len(getEventsForDay(events, rendered.cells[i].day)) = 6
       /\ Len(rendered.cells[i].preview.shown) = 5
       /\ rendered.cells[i].preview.badge = <<1>>

----------------------------------------------------------------------------
(* Calendar.fetchEvents, from its call to its response *)

\* the body GET /api/events?start&end answers with: the rows of the default
\* user in the range, in one of the orders ORDER BY start_date allows
fetchData(query) ==
  {[i \in DOMAIN q |-> mapDbEventToEvent(q[i])] :
     q \in OrderedBy(rowsInDateRange(parseISO(query.start), parseISO(query.end),
                                     defaultUserId), FALSE)}

\* fetchEvents up to its await: setIsLoading(true) and the request for the
\* window of (cd, v)
fetchEvents_call(f, cd, v) ==
  /\ fetches[f] = Idle
  /\ isLoading' = TRUE
  /\ fetchWindow' = fetchQuery(cd, v)
  /\ fetches' = [fetches EXCEPT ![f] = [pc |-> "awaiting", query |-> fetchQuery(cd, v)]]

\* fetchEvents after an OK response: setEvents(data), and the finally block
fetchEvents_resolve(f) ==
  /\ fetches[f] # Idle
  /\ \E data \in fetchData(fetches[f].query) : events' = data
  /\ isLoading' = FALSE
  /\ fetches' = [fetches EXCEPT ![f] = Idle]
  /\ UNCHANGED <<currentDate, view, fetchWindow, rendered, modalVars, serverVars>>

\* fetchEvents after a response that is not OK or a rejected fetch: the
\* catch block's toast, and the finally block
fetchEvents_reject(f) ==
  /\ fetches[f] # Idle
  /\ toast' = Toast("Error loading events")
  /\ isLoading' = FALSE
  /\ fetches' = [fetches EXCEPT ![f] = Idle]
  /\ UNCHANGED <<currentDate, view, events, fetchWindow, rendered,
                 showEventModal, editingEvent, isEditing, modal, request, serverVars>>

\* the anchor dates of the fetch runs lie within FetchDays days of today
FetchDays == 1

InFetchRange(t) ==
  \E now \in Todays : now.day - FetchDays <= t.day /\ t.day <= now.day + FetchDays

\* handlePrevious, handleNext, handleToday or onViewChange (to another
\* view), and the effect's fetchEvents for the new state up to its await
navigate(f, cd, v) ==
  /\ InFetchRange(cd)
  /\ currentDate' = cd
  /\ view' = v
  /\ fetchEvents_call(f, cd, v)
  /\ UNCHANGED <<events, rendered, modalVars, serverVars>>

handlePrevious_fetch(f) == navigate(f, previousDate(currentDate, view), view)

handleNext_fetch(f) == navigate(f, nextDate(currentDate, view), view)

handleToday_fetch(f) == \E now \in Todays : navigate(f, now, view)

onViewChange_fetch(f) == \E newView \in Views \ {view} : navigate(f, currentDate, newView)

\* the stored events of the fetch runs: today, the next day (of the same
\* week and another month), and two other days of today's month
FetchedRows ==
  LET today == CHOOSE now \in Todays : TRUE
      Row(id, day) ==
        [id |-> id, userId |-> defaultUserId, title |-> "t", description |-> NULL,
         startDate |-> [day |-> day, ms |-> At(9, 0, 0, 0)],
         endDate |-> [day |-> day, ms |-> At(10, 0, 0, 0)],
         allDay |-> FALSE, color |-> DEFAULT_COLOR, location |-> NULL,
         notifications |-> FALSE]
  IN  {Row(1, today.day), Row(2, today.day + 1), Row(3, today.day - 3),
       Row(4, today.day - 19)}

\* the page after its first render: the effect has called fetchEvents
InitFetch ==
  /\ currentDate \in Todays
  /\ view = "month"
  /\ events = << >>
  /\ fetchWindow = fetchQuery(currentDate, view)
  /\ rendered = None
  /\ isLoading = TRUE
  /\ fetches = [f \in FetchIds |->
                  IF f = 1 THEN [pc |-> "awaiting", query |-> fetchQuery(currentDate, view)]
                  ELSE Idle]
  /\ ModalClosed
  /\ started = TRUE
  /\ dbUsers = {defaultUserId}
  /\ dbEvents = FetchedRows
  /\ nextEventId = 5
  /\ dbSettings = << >>
  /\ response = None
  /\ calls = NoCalls

NextFetch ==
  \E f \in FetchIds :
    \/ handlePrevious_fetch(f)
    \/ handleNext_fetch(f)
    \/ handleToday_fetch(f)
    \/ onViewChange_fetch(f)
    \/ fetchEvents_resolve(f)
    \/ fetchEvents_reject(f)

SpecFetch == InitFetch /\ [][NextFetch]_vars

NoFetchInFlight == \A f \in FetchIds : fetches[f] = Idle

\* C23: once every issued fetch has completed, and none has failed, the
\* events state holds the response for the window computed last
C23_EventsOfLatestWindow ==
  (NoFetchInFlight /\ toast = None) => events \in fetchData(fetchWindow)

\* C30: isLoading is true while a fetch is in flight, and false once all
\* fetches have completed
C30_LoadingWhileFetchInFlight ==
  /\ ~NoFetchInFlight => isLoading
  /\ NoFetchInFlight => ~isLoading

----------------------------------------------------------------------------
(* DatabaseStorage.updateEvent, one await at a time, against deleteEvent *)

\* PUT /api/events/:id up to updateEvent's UPDATE: getEvent(id), and the
\* 404 of the route when it finds no row
updateEvent_select(c, id, event) ==
  /\ started
  /\ calls[c] = Idle
  /\ IF getEvent(id).id = 0
     THEN /\ response' = [kind |-> "updateEvent", id |-> id, partial |-> event,
                          status |-> 404]
          /\ calls' = calls
     ELSE /\ calls' = [calls EXCEPT ![c] =
                         [pc |-> "existing", id |-> id, event |-> event,
                          stored |-> CHOOSE row \in dbEvents : row.id = id]]
          /\ response' = response
  /\ UNCHANGED <<clientVars, started, dbUsers, dbEvents, nextEventId, dbSettings>>

\* the rest of updateEvent: UPDATE ... WHERE id = ... RETURNING with the
\* values computed from existing, and mapDbEventToEvent(updated).  When the
\* row is gone the UPDATE returns no row, updated is undefined, and
\* mapDbEventToEvent throws the TypeError of reading a property of
\* undefined; the route's catch answers 500.
updateEvent_write(c) ==
  /\ calls[c].pc = "existing"
  /\ LET call == calls[c]
         updated == updatedRow(call.stored, call.event)
     IN  IF \E row \in dbEvents : row.id = call.id
         THEN /\ dbEvents' = {row \in dbEvents : row.id # call.id} \cup {updated}
              /\ response' = [kind |-> "updateEvent", id |-> call.id, status |-> 200,
                              partial |-> call.event, before |-> call.stored,
                              result |-> mapDbEventToEvent(updated)]
         ELSE /\ dbEvents' = dbEvents
              /\ response' = [kind |-> "updateEvent", id |-> call.id,
                              partial |-> call.event, status |-> 500]
  /\ calls' = [calls EXCEPT ![c] = Idle]
  /\ UNCHANGED <<clientVars, started, dbUsers, nextEventId, dbSettings>>

\* the bodies of the PUT requests of the runs against deleteEvent
RacePartials == {[f \in {"title"} |-> "x"], [f \in {"allDay"} |-> TRUE]}

InitUpdateRace ==
  /\ currentDate = [day |-> BaseDay, ms |-> 0]
  /\ view = "month"
  /\ events = << >>
  /\ fetchWindow = None
  /\ rendered = None
  /\ isLoading = FALSE
  /\ fetches = NoFetches
  /\ ModalClosed
  /\ started = TRUE
  /\ dbUsers = {defaultUserId}
  /\ dbEvents = {}
  /\ nextEventId = 1
  /\ dbSettings = << >>
  /\ response = None
  /\ calls = NoCalls

NextUpdateRace ==
  \/ PostEventRoute([title |-> "t", startDate |-> Evening, endDate |-> Night])
  \/ \E c \in CallIds, id \in 1..MaxEventId, event \in RacePartials :
       updateEvent_select(c, id, event)
  \/ \E c \in CallIds : updateEvent_write(c)
  \/ \E id \in 1..MaxEventId : DeleteEventRoute(id)

SpecUpdateRace == InitUpdateRace /\ [][NextUpdateRace]_vars

\* C24: an updateEvent that runs concurrently with a deleteEvent of the
\* same event answers with the updated event or with undefined (404) and
\* never throws, and no step stores a row again under an id handed out
\* earlier
C24_UpdateAgainstDelete ==
  [][/\ (response' # response /\ response'.kind = "updateEvent")
          => response'.status \in {200, 404}
     /\ \A row \in dbEvents' :
          row.id < nextEventId => \E old \in dbEvents : old.id = row.id]_vars

----------------------------------------------------------------------------
(* The event modal: Calendar's modal handlers and EventCreationModal.
   Of the form, the fields that decide what handleSave does are kept: title,
   allDay, selectedDate, startTime, endTime and isSubmitting. *)

\* String.prototype.trim on the titles of the runs
trim(title) == IF title = " " THEN "" ELSE title

\* format(date, "HH:mm"): the hours and minutes, the seconds dropped
formatHHmm(t) == <<getHours(t), getMinutes(t)>>

\* EventCreationModal.createDateWithTime
createDateWithTime(baseDate, timeString) ==
  setHours(baseDate, timeString[1], timeString[2], 0, 0)

\* EventCreationModal.clearForm: the initial values, selectedDate new Date()
clearForm(now) == initialForm(now)

\* the effect on [isOpen, event, isEditing]: an open modal in edit mode
\* takes its fields from the event
populated(form, isOpen, event, editing) ==
  IF isOpen /\ event # undefinedEvent /\ editing
  THEN [form EXCEPT !.title = event.title,
                    !.allDay = event.allDay,
                    !.selectedDate = event.start,
                    !.startTime = formatHHmm(event.start),
                    !.endTime = formatHHmm(event.end)]
  ELSE form

\* Calendar.handleCreateEvent
handleCreateEvent ==
  /\ editingEvent' = undefinedEvent
  /\ isEditing' = FALSE
  /\ showEventModal' = TRUE
  /\ modal' = populated(modal, TRUE, undefinedEvent, FALSE)
  /\ UNCHANGED <<currentDate, view, events, fetchWindow, rendered, fetchVars,
                 request, toast, serverVars>>

\* Calendar.handleCloseEventModal with only its setShowEventModal(false)
handleCloseEventModal_KeepsEvent ==
  /\ showEventModal' = FALSE
  /\ UNCHANGED <<editingEvent, isEditing>>
  /\ UNCHANGED <<currentDate, view, events, fetchWindow, rendered, fetchVars,
                 modal, request, toast, serverVars>>

\* Calendar.handleCloseEventModal, the modal's onClose (Dialog onOpenChange)
handleCloseEventModal ==
  /\ showEventModal' = FALSE
  /\ editingEvent' = undefinedEvent
  /\ isEditing' = FALSE
  /\ UNCHANGED <<currentDate, view, events, fetchWindow, rendered, fetchVars,
                 modal, request, toast, serverVars>>

\* the modal's Cancel button: clearForm(); onClose()
Cancel ==
  /\ showEventModal
  /\ ~modal.isSubmitting
  /\ \E now \in Todays : modal' = [clearForm(now) EXCEPT !.isSubmitting = modal.isSubmitting]
  /\ showEventModal' = FALSE
  /\ editingEvent' = undefinedEvent
  /\ isEditing' = FALSE
  /\ UNCHANGED <<currentDate, view, events, fetchWindow, rendered, fetchVars,
                 request, toast, serverVars>>

\* Calendar.handleEventClick on an event of the events state
handleEventClick ==
  \E i \in DOMAIN events :
    LET transformedEvent ==
          [id |-> events[i].id, title |-> events[i].title,
           allDay |-> events[i].allDay,
           start |-> events[i].startDate, end |-> events[i].endDate]
    IN  /\ editingEvent' = transformedEvent
        /\ isEditing' = TRUE
        /\ showEventModal' = TRUE
        /\ modal' = populated(modal, TRUE, transformedEvent, TRUE)
        /\ UNCHANGED <<currentDate, view, events, fetchWindow, rendered, fetchVars,
                       request, toast, serverVars>>

\* the titles and times typed into the form
Titles == {"", " ", "t"}

Times == {<<9, 0>>, <<10, 0>>}

setTitle ==
  /\ showEventModal
  /\ \E title \in Titles : modal' = [modal EXCEPT !.title = title]
  /\ UNCHANGED <<currentDate, view, events, fetchWindow, rendered, fetchVars,
                 showEventModal, editingEvent, isEditing, request, toast, serverVars>>

setAllDay ==
  /\ showEventModal
  /\ \E checked \in BOOLEAN : modal' = [modal EXCEPT !.allDay = checked]
  /\ UNCHANGED <<currentDate, view, events, fetchWindow, rendered, fetchVars,
                 showEventModal, editingEvent, isEditing, request, toast, serverVars>>

setStartTime ==
  /\ showEventModal
  /\ \E time \in Times : modal' = [modal EXCEPT !.startTime = time]
  /\ UNCHANGED <<currentDate, view, events, fetchWindow, rendered, fetchVars,
                 showEventModal, editingEvent, isEditing, request, toast, serverVars>>

setEndTime ==
  /\ showEventModal
  /\ \E time \in Times : modal' = [modal EXCEPT !.endTime = time]
  /\ UNCHANGED <<currentDate, view, events, fetchWindow, rendered, fetchVars,
                 showEventModal, editingEvent, isEditing, request, toast, serverVars>>

\* the start of handleSave's event: 00:00:00.000 of the selected date when
\* allDay, else the selected date at startTime
saveStartDate(form) ==
  IF form.allDay THEN setHours(form.selectedDate, 0, 0, 0, 0)
  ELSE createDateWithTime(form.selectedDate, form.startTime)

saveEndDate(form) ==
  IF form.allDay THEN setHours(form.selectedDate, 23, 59, 59, 999)
  ELSE createDateWithTime(form.selectedDate, form.endTime)

\* handleSave's request: PUT /api/events/:id when isEditing && event?.id,
\* else POST /api/events, with eventData as its body
saveRequest(form, event, editing) ==
  [pc |-> "awaiting",
   method |-> IF editing /\ event.id # 0 THEN "PUT" ELSE "POST",
   id |-> IF editing /\ event.id # 0 THEN event.id ELSE 0,
   isEditing |-> editing,
   body |-> [title |-> form.title, allDay |-> form.allDay,
             startDate |-> toISOString(saveStartDate(form)),
             endDate |-> toISOString(saveEndDate(form)),
             userId |-> 1]]

\* handleSave up to its await, without the test of the time range
handleSave_submit_Unvalidated ==
  /\ showEventModal
  /\ ~modal.isSubmitting
  /\ trim(modal.title) # ""
  /\ modal' = [modal EXCEPT !.isSubmitting = TRUE]
  /\ request' = saveRequest(modal, editingEvent, isEditing)
  /\ toast' = toast
  /\ UNCHANGED <<currentDate, view, events, fetchWindow, rendered, fetchVars,
                 showEventModal, editingEvent, isEditing, serverVars>>

\* handleSave up to its await; the Save button is disabled while
\* isSubmitting or with a blank title
handleSave_submit ==
  /\ showEventModal
  /\ ~modal.isSubmitting
  /\ trim(modal.title) # ""
  /\ IF trim(modal.title) = ""
     THEN /\ toast' = Toast("Event title required")
          /\ UNCHANGED <<modal, request>>
     ELSE IF ~modal.allDay /\ NotAfter(saveEndDate(modal), saveStartDate(modal))
     THEN /\ toast' = Toast("Invalid time range")
          /\ modal' = [modal EXCEPT !.isSubmitting = FALSE]
          /\ request' = request
     ELSE /\ modal' = [modal EXCEPT !.isSubmitting = TRUE]
          /\ request' = saveRequest(modal, editingEvent, isEditing)
          /\ toast' = toast
  /\ UNCHANGED <<currentDate, view, events, fetchWindow, rendered, fetchVars,
                 showEventModal, editingEvent, isEditing, serverVars>>

\* Calendar.handleEventCreated and handleEventUpdated (the same body), after
\* the modal's clearForm() and onClose(): fetchEvents() and the three flags
closedAndRefetched(f, now) ==
  /\ fetchEvents_call(f, currentDate, view)
  /\ showEventModal' = FALSE
  /\ editingEvent' = undefinedEvent
  /\ isEditing' = FALSE
  /\ modal' = clearForm(now)

Outcomes == {"ok", "notOk", "rejected"}

\* handleSave after its await: a response, OK or not, leads to clearForm(),
\* onClose() and onEventUpdated() or onEventCreated(); a rejected fetch
\* leads to the catch block's toast; finally setIsSubmitting(false)
handleSave_settle(outcome) ==
  /\ request.pc = "awaiting"
  /\ request.method \in {"POST", "PUT"}
  /\ request' = [pc |-> "settled", method |-> request.method, outcome |-> outcome]
  /\ IF outcome = "rejected"
     THEN /\ toast' = Toast(IF request.isEditing THEN "Failed to update event"
                            ELSE "Failed to create event")
          /\ modal' = [modal EXCEPT !.isSubmitting = FALSE]
          /\ UNCHANGED <<showEventModal, editingEvent, isEditing, fetchVars, fetchWindow>>
     ELSE /\ \E f \in FetchIds, now \in Todays : closedAndRefetched(f, now)
          /\ toast' = toast
  /\ UNCHANGED <<currentDate, view, events, rendered, serverVars>>

\* handleDelete up to its await; the Delete button is drawn when
\* isEditing && event?.id and disabled while isSubmitting
handleDelete_submit ==
  /\ showEventModal
  /\ ~modal.isSubmitting
  /\ isEditing /\ editingEvent.id # 0
  /\ modal' = [modal EXCEPT !.isSubmitting = TRUE]
  /\ request' = [pc |-> "awaiting", method |-> "DELETE", id |-> editingEvent.id,
                 isEditing |-> isEditing]
  /\ UNCHANGED <<currentDate, view, events, fetchWindow, rendered, fetchVars,
                 showEventModal, editingEvent, isEditing, toast, serverVars>>

\* handleDelete after its await: only an OK response leads to clearForm(),
\* onClose() and onEventUpdated()
handleDelete_settle(outcome) ==
  /\ request.pc = "awaiting"
  /\ request.method = "DELETE"
  /\ request' = [pc |-> "settled", method |-> request.method, outcome |-> outcome]
  /\ IF outcome # "ok"
     THEN /\ toast' = Toast("Failed to delete event")
          /\ modal' = [modal EXCEPT !.isSubmitting = FALSE]
          /\ UNCHANGED <<showEventModal, editingEvent, isEditing, fetchVars, fetchWindow>>
     ELSE /\ \E f \in FetchIds, now \in Todays : closedAndRefetched(f, now)
          /\ toast' = toast
  /\ UNCHANGED <<currentDate, view, events, rendered, serverVars>>

\* the stored event of the modal runs: a timed event today
ModalRows ==
  LET today == CHOOSE now \in Todays : TRUE
  IN  {[id |-> 1, userId |-> defaultUserId, title |-> "t", description |-> NULL,
        startDate |-> [day |-> today.day, ms |-> At(9, 0, 0, 0)],
        endDate |-> [day |-> today.day, ms |-> At(10, 0, 0, 0)],
        allDay |-> FALSE, color |-> DEFAULT_COLOR, location |-> NULL,
        notifications |-> FALSE]}

\* the page in the day view after its first fetch was answered
InitModal ==
  /\ currentDate \in Todays
  /\ view = "day"
  /\ fetchWindow = fetchQuery(currentDate, view)
  /\ dbEvents = ModalRows
  /\ events \in fetchData(fetchWindow)
  /\ rendered = None
  /\ isLoading = FALSE
  /\ fetches = NoFetches
  /\ ModalClosed
  /\ started = TRUE
  /\ dbUsers = {defaultUserId}
  /\ nextEventId = 2
  /\ dbSettings = << >>
  /\ response = None
  /\ calls = NoCalls

NextModal ==
  \/ handleCreateEvent
  \/ handleEventClick
  \/ handleCloseEventModal
  \/ Cancel
  \/ setTitle
  \/ setAllDay
  \/ setStartTime
  \/ setEndTime
  \/ handleSave_submit
  \/ \E outcome \in Outcomes : handleSave_settle(outcome)
  \/ handleDelete_submit
  \/ \E outcome \in Outcomes : handleDelete_settle(outcome)
  \/ \E f \in FetchIds : fetchEvents_resolve(f)
  \/ \E f \in FetchIds : fetchEvents_reject(f)

SpecModal == InitModal /\ [][NextModal]_vars

\* a step that sends a create or update request
SendsSave == request' # request /\ request'.pc = "awaiting"
               /\ request'.method \in {"POST", "PUT"}

\* C25: when the request of handleSave completes with a status that is not
\* OK, the modal keeps its form, stays as open as it was, calls neither
\* onEventCreated nor onEventUpdated (no fetchEvents) and shows a failure
\* toast
C25_FailedSaveKeepsModal ==
  [][(request.pc = "awaiting" /\ request.method \in {"POST", "PUT"}
        /\ request'.pc = "settled" /\ request'.outcome = "notOk")
       => /\ modal' = [modal EXCEPT !.isSubmitting = FALSE]
          /\ showEventModal' = showEventModal
          /\ fetches' = fetches
          /\ toast' \in {Toast("Failed to update event"),
                         Toast("Failed to create event")}]_vars

\* C26: every create or update request carries startDate < endDate; a
\* timed form with end <= start sends nothing, a refusal leaves
\* isSubmitting false and the modal open, and an all-day request runs from
\* 00:00:00.000 to 23:59:59.999 of the selected date
C26_RequestsCarryOrderedDates ==
  [][/\ SendsSave =>
          /\ Before(parseISO(request'.body.startDate), parseISO(request'.body.endDate))
          /\ ~modal.allDay =>
               modal.startTime[1] * 60 + modal.startTime[2]
                 < modal.endTime[1] * 60 + modal.endTime[2]
          /\ modal.allDay =>
               /\ request'.body.allDay
               /\ parseISO(request'.body.startDate)
                    = [day |-> modal.selectedDate.day, ms |-> 0]
               /\ parseISO(request'.body.endDate)
                    = [day |-> modal.selectedDate.day, ms |-> MsPerDay - 1]
     /\ (toast' # toast /\ toast' = Toast("Invalid time range")) =>
          /\ request' = request
          /\ ~modal'.isSubmitting
          /\ showEventModal' /\ showEventModal]_vars

\* a refusal was shown, and an all-day request is on its way
C26_Witness ==
  /\ toast = Toast("Invalid time range")
  /\ request.pc = "awaiting"
  /\ request.method = "PUT"
  /\ request.body.allDay
  /\ showEventModal

\* C27: isEditing is true exactly when editingEvent is defined, and while
\* the event modal is closed editingEvent is undefined and isEditing false
C27_EditingFlagsAgree ==
  /\ isEditing <=> editingEvent # undefinedEvent
  /\ ~showEventModal => (editingEvent = undefinedEvent /\ ~isEditing)

\* the modal open on a clicked event after an earlier save was settled
C27_Witness ==
  /\ showEventModal
  /\ isEditing
  /\ editingEvent # undefinedEvent
  /\ request.pc = "settled"

----------------------------------------------------------------------------
(* Navigation there and back *)

\* C28: for the anchor and view of every state of the page, handleNext
\* followed by handlePrevious, and handlePrevious followed by handleNext,
\* lead back to the calendar day of the anchor
C28_NextThenPreviousRestores ==
  /\ previousDate(nextDate(currentDate, view), view).day = currentDate.day
  /\ nextDate(previousDate(currentDate, view), view).day = currentDate.day

----------------------------------------------------------------------------
(* The events of two users *)

\* the bodies of POST /api/events of the two users, and one without userId
UserInsertEvents ==
  {[title |-> "t", startDate |-> Evening, endDate |-> Night, userId |-> u] : u \in Users}
    \cup {[title |-> "t", startDate |-> Midnight, endDate |-> Night]}

\* the bodies of PUT /api/events/:id: a title, and the userId of each user
UserEventPartials ==
  {[f \in {"title"} |-> "x"]} \cup {[f \in {"userId"} |-> u] : u \in Users}

\* a database whose table users holds both users
InitUsers ==
  /\ currentDate = [day |-> BaseDay, ms |-> 0]
  /\ view = "month"
  /\ events = << >>
  /\ fetchWindow = None
  /\ rendered = None
  /\ isLoading = FALSE
  /\ fetches = NoFetches
  /\ ModalClosed
  /\ started = TRUE
  /\ dbUsers = Users
  /\ dbEvents = {}
  /\ nextEventId = 1
  /\ dbSettings = << >>
  /\ response = None
  /\ calls = NoCalls

NextUsers ==
  \/ \E body \in UserInsertEvents : PostEventRoute(body)
  \/ \E id \in 1..MaxEventId, body \in UserEventPartials : PutEventRoute(id, body)
  \/ \E id \in 1..MaxEventId : DeleteEventRoute(id)
  \/ \E userId \in Users : GetEventsRoute(userId)
  \/ \E userId \in Users :
       GetEventsByDateRangeRoute(parseISO(fetchQuery(currentDate, view).start),
                                 parseISO(fetchQuery(currentDate, view).end), userId)

SpecUsers == InitUsers /\ [][NextUsers]_vars

RowsOf(rows, userId) == {row \in rows : row.userId = userId}

\* C29: the events getEvents and getEventsByDateRange answer for a user
\* are events of that user (for getEvents, all of them); the stored events
\* of a user change only in a step that creates, updates or deletes an
\* event of that user; and no step changes the userId of a stored event
C29_UsersAreIsolated ==
  [][/\ response'.kind \in {"getEvents", "getEventsByDateRange"} =>
          \A i \in DOMAIN response'.result :
            /\ response'.result[i].userId = response'.userId
            /\ \E row \in dbEvents' : row.id = response'.result[i].id
                                        /\ row.userId = response'.userId
     /\ response'.kind = "getEvents" =>
          {response'.result[i].id : i \in DOMAIN response'.result}
            = {row.id : row \in RowsOf(dbEvents', response'.userId)}
     /\ \A old \in dbEvents, new \in dbEvents' :
          old.id = new.id => old.userId = new.userId
     /\ \A B \in Users :
          RowsOf(dbEvents', B) # RowsOf(dbEvents, B) =>
            \/ response'.kind = "createEvent" /\ response'.status = 201
                 /\ response'.result.userId = B
            \/ response'.kind = "updateEvent" /\ response'.status = 200
                 /\ response'.before.userId = B
            \/ response'.kind = "deleteEvent"
                 /\ \E row \in dbEvents : row.id = response'.id /\ row.userId = B]_vars

\* the range query of the second user answers with that user's event while
\* the default user has an event in the same range
C29_Witness ==
  /\ response.kind = "getEventsByDateRange"
  /\ response.userId = defaultUserId + 1
  /\ Len(response.result) = 1
  /\ \E row \in rowsInDateRange_AnyUser(response.start, response.end, 0) :
       row.userId = defaultUserId

====
